---- MODULE Spec2Model ----
(***************************************************************************)
(* Coordination layer of the systemsweep desktop cleaner: the zustand      *)
(* store (src/stores/appStore.ts), the scan orchestrator (useScanner) and  *)
(* the cleanup orchestrator (useCleanup).  The engine behind invoke/listen *)
(* is external: its replies and pushed events are nondeterministic.        *)
(***************************************************************************)
EXTENDS Integers, Sequences, FiniteSets, TLC

VARIABLES
    isScanning,        \* store.isScanning
    isCleaning,        \* store.isCleaning
    isDryRun,          \* store.isDryRun
    scanResults,       \* store.scanResults : Seq(ScanResult)
    currentSession,    \* store.currentSession : CleanupSession | null
    restorePoints,     \* store.restorePoints, newest first
    scanProgress,      \* store.scanProgress : ScanProgress | null
    notifications,     \* store.notifications, newest first
    categoryStats,     \* store.categoryStats
    settings,          \* store.settings
    cleanupProgress,   \* useCleanup's local useState
    runs,              \* performCleanup invocations past the precondition
    cleanupRequested,  \* some perform_cleanup request has reached the engine
    scanRequests,      \* outstanding start_scan requests (their categories)
    scanStarted,       \* some start_scan request was accepted by the engine
    cancelScanPending,    \* outstanding cancel_scan requests
    cancelCleanupPending, \* outstanding cancel_cleanup requests
    nextNotifId,       \* source of crypto.randomUUID() identities
    nextPointId,       \* source of engine-made restore point identities
    duplicates,        \* store.duplicates : Seq(DuplicateGroup)
    largeFiles,        \* store.largeFiles : Seq(LargeFile)
    sidebarCollapsed,  \* store.sidebarCollapsed
    loading,           \* the Duplicates view's local useState
    findRequests,      \* outstanding find_duplicates requests
    deleteRequests,    \* outstanding delete_duplicates requests (their file ids)
    mounted,           \* the views whose orchestrators are mounted
    listeners          \* the event subscriptions made by the orchestrators' effects

vars == <<isScanning, isCleaning, isDryRun, scanResults, currentSession,
          restorePoints, scanProgress, notifications, categoryStats, settings,
          cleanupProgress, runs, cleanupRequested, scanRequests, scanStarted,
          cancelScanPending, cancelCleanupPending, nextNotifId, nextPointId,
          duplicates, largeFiles, sidebarCollapsed, loading, findRequests,
          deleteRequests, mounted, listeners>>

\* groups of variables, for the frame conditions
scanSide == <<isScanning, scanProgress, scanRequests, scanStarted, cancelScanPending>>
cleanSide == <<isCleaning, cleanupProgress, runs, cleanupRequested,
               cancelCleanupPending>>
ledgerSide == <<notifications, nextNotifId>>
restoreSide == <<restorePoints, nextPointId>>
finderSide == <<duplicates, largeFiles>>
viewSide == <<sidebarCollapsed, loading, findRequests, deleteRequests, mounted,
              listeners>>

\* an absent (null) value and a present one
None == <<>>
Some(x) == <<x>>
NoCategory == "none"   \* selectAllResults() called without a category

-----------------------------------------------------------------------------
(* Bounds of the model *)

MaxRuns == 2        \* performCleanup invocations that pass the precondition
MaxScans == 2       \* start_scan requests outstanding together
MaxNotifs == 3      \* notifications the orchestrators may append in one run of the model
MaxLedgerAdds == 52 \* addNotification calls in the ledger specification
MaxReadId == 2      \* identities markNotificationRead is called with there
MaxPoints == 12     \* addRestorePoint calls in the restore ledger specification
MaxCapChoice == 3   \* largest maxRestorePoints that updateSettings picks there
MaxStatsLen == 3    \* longest result list of the category statistics specification
MaxSelLen == 3      \* longest result list of the selection specification

(* Program constants *)

NotificationCap == 50
DefaultMaxRestorePoints == 10

Min(a, b) == IF a < b THEN a ELSE b

-----------------------------------------------------------------------------
(* Values the engine and the user supply *)

Result(id, size, category, sel) ==
    [id |-> id, size |-> size, category |-> category, isSelected |-> sel]

\* payloads of the scan-complete event
ResultPayloads ==
    { << Result("a", 100, "temp_files", TRUE),
         Result("b", 200, "temp_files", TRUE) >>,
      << Result("c", 1536, "log_files", FALSE) >> }

ResultIds == {"a", "b", "c"}

Categories == {"temp_files", "log_files"}

\* payloads of the scan-progress event
ProgressPayloads ==
    { [phase |-> "scanning", currentPath |-> "/tmp", filesScanned |-> 5,
       issuesFound |-> 1, estimatedTime |-> 3, progress |-> 40] }

\* payloads of the cleanup-progress event
CleanupProgressPayloads ==
    { [current |-> 1, total |-> 2, currentFile |-> "/tmp/a"] }

\* sessions the perform_cleanup call resolves with
Sessions ==
    { [id |-> "s1", spaceFreed |-> 0, filesDeleted |-> 0, status |-> "completed"],
      [id |-> "s2", spaceFreed |-> 2048, filesDeleted |-> 1, status |-> "completed"] }

\* values an engine call rejects with: an Error carrying a message, or a
\* value that is not an Error
Failures ==
    { [isError |-> TRUE, message |-> "disk full"],
      [isError |-> FALSE, message |-> ""] }

ScanCategoryLists == { <<"temp_files", "log_files">> }

-----------------------------------------------------------------------------
(* utils/format.ts *)

UnitIndex(bytes) ==
    IF bytes < 1024 THEN 0
    ELSE IF bytes < 1024 * 1024 THEN 1
    ELSE IF bytes < 1024 * 1024 * 1024 THEN 2
    ELSE 3

Pow1024(i) == IF i = 0 THEN 1
              ELSE IF i = 1 THEN 1024
              ELSE IF i = 2 THEN 1024 * 1024
              ELSE 1024 * 1024 * 1024

Units == <<"B", "KB", "MB", "GB">>

\* the text is the number in hundredths (toFixed(2), trailing zeros dropped
\* by parseFloat) and the unit
FormatBytes(bytes) ==
    IF bytes = 0 THEN [hundredths |-> 0, unit |-> "B"]
    ELSE LET i == UnitIndex(bytes)
         IN [hundredths |-> (bytes * 200 + Pow1024(i)) \div (2 * Pow1024(i)),
             unit |-> Units[i + 1]]

-----------------------------------------------------------------------------
(* stores/appStore.ts: the pure part of each store action *)

\* addNotification without the slice(0, 50)
AddNotificationUncapped(ledger, partial, id) ==
    <<[id |-> id, type |-> partial.type, title |-> partial.title,
       message |-> partial.message, read |-> FALSE]>> \o ledger

AddNotificationOp(ledger, partial, id) ==
    LET entry == [id |-> id, type |-> partial.type, title |-> partial.title,
                  message |-> partial.message, read |-> FALSE]
        all == <<entry>> \o ledger
    IN SubSeq(all, 1, Min(Len(all), NotificationCap))

\* a mark-read that marks the whole ledger
MarkEveryNotificationRead(ledger, id) ==
    [i \in DOMAIN ledger |-> [ledger[i] EXCEPT !.read = TRUE]]

MarkNotificationReadOp(ledger, id) ==
    [i \in DOMAIN ledger |->
        IF ledger[i].id = id THEN [ledger[i] EXCEPT !.read = TRUE] ELSE ledger[i]]

AddRestorePointOp(ledger, cap, point) ==
    LET points == <<point>> \o ledger
    IN IF Len(points) > cap THEN SubSeq(points, 1, Len(points) - 1) ELSE points

MergeSettings(old, partial) ==
    [k \in DOMAIN old |-> IF k \in DOMAIN partial THEN partial[k] ELSE old[k]]

\* a toggle that only ever selects
ToggleSelectsOnly(results, id) ==
    [i \in DOMAIN results |->
        IF results[i].id = id THEN [results[i] EXCEPT !.isSelected = TRUE]
        ELSE results[i]]

ToggleResultSelectionOp(results, id) ==
    [i \in DOMAIN results |->
        IF results[i].id = id
        THEN [results[i] EXCEPT !.isSelected = ~results[i].isSelected]
        ELSE results[i]]

\* a select-all that ignores its category argument
SelectAllIgnoresCategory(results, category) ==
    [i \in DOMAIN results |-> [results[i] EXCEPT !.isSelected = TRUE]]

SelectAllResultsOp(results, category) ==
    [i \in DOMAIN results |->
        IF category # NoCategory
        THEN (IF results[i].category = category
              THEN [results[i] EXCEPT !.isSelected = TRUE] ELSE results[i])
        ELSE [results[i] EXCEPT !.isSelected = TRUE]]

\* deselectAllResults that leaves the flags as they are
DeselectNothing(results) == results

\* a deselect that honours the category filter of the last select
DeselectTempFilesOnly(results) ==
    [i \in DOMAIN results |->
        IF results[i].category = "temp_files"
        THEN [results[i] EXCEPT !.isSelected = FALSE]
        ELSE results[i]]

DeselectAllResultsOp(results) ==
    [i \in DOMAIN results |-> [results[i] EXCEPT !.isSelected = FALSE]]

defaultSettings ==
    [dryRunDefault |-> TRUE, createRestorePoints |-> TRUE,
     maxRestorePoints |-> DefaultMaxRestorePoints, secureDelete |-> FALSE]

-----------------------------------------------------------------------------
(* hooks/useCleanup.ts: derived values of a render *)

RECURSIVE SelectedItems(_)
SelectedItems(results) ==
    IF results = <<>> THEN <<>>
    ELSE IF Head(results).isSelected
         THEN <<Head(results)>> \o SelectedItems(Tail(results))
         ELSE SelectedItems(Tail(results))

RECURSIVE SelectedSize(_)
SelectedSize(items) ==
    IF items = <<>> THEN 0 ELSE Head(items).size + SelectedSize(Tail(items))

ItemIds(items) == [i \in DOMAIN items |-> items[i].id]

\* the precondition check left out
NeverEmpty(items) == FALSE

NoItemsSelected(items) == Len(items) = 0

\* the restore-point condition without the dry-run test
RestorePointAlways(createRestorePoints, dryRun) == createRestorePoints

ShouldCreateRestorePoint(createRestorePoints, dryRun) ==
    createRestorePoints /\ ~dryRun

\* the catch block using the generic text for every failure
ErrorMessageGeneric(failure) ==
    [text |-> "Unknown error occurred", bytes |-> [hundredths |-> 0, unit |-> ""],
     n |-> 0]

\* a notification message: fixed text, and for the cleanup summaries the
\* formatted byte count and the item count interpolated into it
NoBytes == [hundredths |-> 0, unit |-> ""]
Text(t) == [text |-> t, bytes |-> NoBytes, n |-> 0]

ErrorMessage(failure) ==
    IF failure.isError THEN Text(failure.message) ELSE Text("Unknown error occurred")

\* the dry-run summary built from the returned session
SuccessNotificationFromSession(dryRun, size, count, session) ==
    [type |-> "success",
     title |-> IF dryRun THEN "Dry Run Complete" ELSE "Cleanup Complete",
     message |-> IF dryRun
                 THEN [text |-> "Would free", bytes |-> FormatBytes(session.spaceFreed),
                       n |-> session.filesDeleted]
                 ELSE [text |-> "Freed", bytes |-> FormatBytes(session.spaceFreed),
                       n |-> session.filesDeleted]]

SuccessNotification(dryRun, size, count, session) ==
    [type |-> "success",
     title |-> IF dryRun THEN "Dry Run Complete" ELSE "Cleanup Complete",
     message |-> IF dryRun
                 THEN [text |-> "Would free", bytes |-> FormatBytes(size), n |-> count]
                 ELSE [text |-> "Freed", bytes |-> FormatBytes(session.spaceFreed),
                       n |-> session.filesDeleted]]

FailureNotification(failure) ==
    [type |-> "error", title |-> "Cleanup Failed", message |-> ErrorMessage(failure)]

NoSelectionNotification ==
    [type |-> "warning", title |-> "No Items Selected",
     message |-> Text("Please select items to clean up")]

CancelledNotification ==
    [type |-> "info", title |-> "Cleanup Cancelled",
     message |-> Text("The cleanup operation was cancelled")]

-----------------------------------------------------------------------------
(* hooks/useScanner.ts: values built by the handlers *)

InitialScanProgress ==
    [phase |-> "initializing", currentPath |-> "", filesScanned |-> 0,
     issuesFound |-> 0, estimatedTime |-> 0, progress |-> 0]

categoryLabels ==
    [c \in Categories |->
        IF c = "temp_files" THEN [label |-> "Temporary Files", icon |-> "file-x"]
        ELSE [label |-> "Log Files", icon |-> "file-text"]]

\* statsMap: one entry per category, in order of first occurrence
RECURSIVE StatsMap(_, _)
StatsMap(results, acc) ==
    IF results = <<>> THEN acc
    ELSE LET r == Head(results)
             at == {i \in DOMAIN acc : acc[i].category = r.category}
         IN IF at = {}
            THEN StatsMap(Tail(results),
                          Append(acc, [category |-> r.category, count |-> 1,
                                       size |-> r.size]))
            ELSE StatsMap(Tail(results),
                          [i \in DOMAIN acc |->
                              IF i \in at
                              THEN [acc[i] EXCEPT !.count = @ + 1, !.size = @ + r.size]
                              ELSE acc[i]])

\* statistics that take a category's size from its first result only
CategoryStatsFirstSize(results) ==
    LET m == StatsMap(results, <<>>)
        first(c) == CHOOSE j \in DOMAIN results :
                        /\ results[j].category = c
                        /\ \A k \in 1..(j - 1) : results[k].category # c
    IN [i \in DOMAIN m |->
          [category |-> m[i].category, count |-> m[i].count,
           size |-> results[first(m[i].category)].size,
           label |-> categoryLabels[m[i].category].label,
           icon |-> categoryLabels[m[i].category].icon]]

CategoryStatsOf(results) ==
    LET m == StatsMap(results, <<>>)
    IN [i \in DOMAIN m |->
          [category |-> m[i].category, count |-> m[i].count, size |-> m[i].size,
           label |-> categoryLabels[m[i].category].label,
           icon |-> categoryLabels[m[i].category].icon]]

ScanCompleteNotification(results) ==
    [type |-> "success", title |-> "Scan Complete",
     message |-> [text |-> "Found", bytes |-> FormatBytes(SelectedSize(results)),
                  n |-> Len(results)]]

ScanFailedNotification(failure) ==
    [type |-> "error", title |-> "Scan Failed", message |-> ErrorMessage(failure)]

ScanCancelledNotification ==
    [type |-> "info", title |-> "Scan Cancelled",
     message |-> Text("The scan was cancelled by user")]

-----------------------------------------------------------------------------
(* Positions of the asynchronous operations *)

\* a performCleanup invocation: where it is suspended, the values its closure
\* captured, and the engine calls it has made
IdleRun ==
    [pc |-> "idle", items |-> <<>>, size |-> 0, dryRun |-> FALSE,
     createRestorePoints |-> FALSE, secureDelete |-> FALSE,
     rpRequests |-> 0, rpArgs |-> <<>>, rpAppended |-> 0,
     cleanupRequests |-> 0, cleanupArgs |-> <<>>, outcome |-> "none"]

RunIds == 1..MaxRuns

AwaitingRun(r) == runs[r].pc \in {"awaitRestorePoint", "awaitCleanup"}

\* operations in flight whose completion may append a notification
InFlight ==
    Cardinality({r \in RunIds : AwaitingRun(r)})
    + Len(scanRequests) + cancelScanPending + cancelCleanupPending

\* a new operation is taken only while the ledger budget of the model allows
\* every operation in flight to report
Budget == (nextNotifId - 1) + InFlight < MaxNotifs

Notify(partial) ==
    /\ notifications' = AddNotificationOp(notifications, partial, nextNotifId)
    /\ nextNotifId' = nextNotifId + 1

\* the event subscriptions: one per view, hook and event
Views == {"dashboard", "scanner"}

ListenerIds ==
    { <<v, "scan-progress">> : v \in Views } \cup
    { <<v, "scan-complete">> : v \in Views } \cup
    { <<"scanner", "cleanup-progress">> }

\* no listen call made, or the subscription released
IdleListener == [state |-> "idle", tornDown |-> FALSE]

\* the views and the Duplicates view before anything is mounted or clicked
ViewInit ==
    /\ sidebarCollapsed = FALSE
    /\ loading = FALSE
    /\ findRequests = 0
    /\ deleteRequests = <<>>
    /\ mounted = {}
    /\ listeners = [l \in ListenerIds |-> IdleListener]

Init ==
    /\ isScanning = FALSE
    /\ isCleaning = FALSE
    /\ isDryRun = TRUE
    /\ scanResults = <<>>
    /\ currentSession = None
    /\ restorePoints = <<>>
    /\ scanProgress = None
    /\ notifications = <<>>
    /\ categoryStats = <<>>
    /\ settings = defaultSettings
    /\ cleanupProgress = None
    /\ runs = [r \in RunIds |-> IdleRun]
    /\ cleanupRequested = FALSE
    /\ scanRequests = <<>>
    /\ scanStarted = FALSE
    /\ cancelScanPending = 0
    /\ cancelCleanupPending = 0
    /\ nextNotifId = 1
    /\ nextPointId = 1
    /\ duplicates = <<>>
    /\ largeFiles = <<>>
    /\ ViewInit

-----------------------------------------------------------------------------
(* hooks/useCleanup.ts *)

\* performCleanup with nothing selected: the early return
PerformCleanupEmpty ==
    /\ Budget
    /\ NoItemsSelected(SelectedItems(scanResults))
    /\ Notify(NoSelectionNotification)
    /\ UNCHANGED <<viewSide, finderSide, scanSide, cleanSide, restoreSide, isDryRun, scanResults,
                   currentSession, categoryStats, settings>>

\* performCleanup up to its first await.  The callback closes over the
\* render's selectedItems, selectedSize, isDryRun and settings.
PerformCleanupStart(r) ==
    LET items == SelectedItems(scanResults)
        ids == ItemIds(items)
        snap == [IdleRun EXCEPT !.items = items, !.size = SelectedSize(items),
                                !.dryRun = isDryRun,
                                !.createRestorePoints = settings.createRestorePoints,
                                !.secureDelete = settings.secureDelete]
    IN
    /\ Budget
    /\ runs[r].pc = "idle"
    /\ \A q \in RunIds : q < r => runs[q].pc # "idle"
    /\ ~NoItemsSelected(items)
    /\ isCleaning' = TRUE
    /\ cleanupProgress' = Some([current |-> 0, total |-> Len(items), currentFile |-> ""])
    /\ runs' = [runs EXCEPT ![r] =
            IF ShouldCreateRestorePoint(settings.createRestorePoints, isDryRun)
            THEN [snap EXCEPT !.pc = "awaitRestorePoint", !.rpRequests = 1,
                              !.rpArgs = ids]
            ELSE [snap EXCEPT !.pc = "awaitCleanup", !.cleanupRequests = 1,
                              !.cleanupArgs = <<ids, isDryRun, settings.secureDelete>>]]
    /\ cleanupRequested' =
            (cleanupRequested
             \/ ~ShouldCreateRestorePoint(settings.createRestorePoints, isDryRun))
    /\ UNCHANGED <<viewSide, finderSide, scanSide, ledgerSide, restoreSide, cancelCleanupPending, isDryRun,
                   scanResults, currentSession, categoryStats, settings>>

\* a continuation that reads the selection again after the restore point
RestorePointResolveRereads(r) ==
    LET run == runs[r]
        point == [id |-> nextPointId, itemCount |-> Len(run.rpArgs)]
    IN
    /\ run.pc = "awaitRestorePoint"
    /\ restorePoints' = AddRestorePointOp(restorePoints, settings.maxRestorePoints, point)
    /\ nextPointId' = nextPointId + 1
    /\ runs' = [runs EXCEPT ![r] =
            [run EXCEPT !.pc = "awaitCleanup", !.rpAppended = @ + 1,
                        !.cleanupRequests = @ + 1,
                        !.cleanupArgs = <<ItemIds(SelectedItems(scanResults)),
                                          run.dryRun, run.secureDelete>>]]
    /\ cleanupRequested' = TRUE
    /\ UNCHANGED <<viewSide, finderSide, scanSide, ledgerSide, isCleaning, cleanupProgress,
                   cancelCleanupPending, isDryRun, scanResults, currentSession,
                   categoryStats, settings>>

\* create_restore_point resolves: addRestorePoint, then perform_cleanup is issued
RestorePointResolve(r) ==
    LET run == runs[r]
        point == [id |-> nextPointId, itemCount |-> Len(run.rpArgs)]
    IN
    /\ run.pc = "awaitRestorePoint"
    /\ restorePoints' = AddRestorePointOp(restorePoints, settings.maxRestorePoints, point)
    /\ nextPointId' = nextPointId + 1
    /\ runs' = [runs EXCEPT ![r] =
            [run EXCEPT !.pc = "awaitCleanup", !.rpAppended = @ + 1,
                        !.cleanupRequests = @ + 1,
                        !.cleanupArgs = <<ItemIds(run.items), run.dryRun, run.secureDelete>>]]
    /\ cleanupRequested' = TRUE
    /\ UNCHANGED <<viewSide, finderSide, scanSide, ledgerSide, isCleaning, cleanupProgress,
                   cancelCleanupPending, isDryRun, scanResults, currentSession,
                   categoryStats, settings>>

\* the run's slot after performCleanup has returned to its caller
Returned == [IdleRun EXCEPT !.outcome = "returned"]

\* the catch block with no finally block after it
CatchWithoutFinally(r, failure) ==
    /\ Notify(FailureNotification(failure))
    /\ runs' = [runs EXCEPT ![r] = Returned]
    /\ UNCHANGED <<viewSide, finderSide, scanSide, restoreSide, isCleaning, cleanupProgress,
                   cleanupRequested, cancelCleanupPending, isDryRun, scanResults,
                   currentSession, categoryStats, settings>>

\* the catch block followed by the finally block
CatchAndFinally(r, failure) ==
    /\ Notify(FailureNotification(failure))
    /\ isCleaning' = FALSE
    /\ cleanupProgress' = None
    /\ runs' = [runs EXCEPT ![r] = Returned]
    /\ UNCHANGED <<viewSide, finderSide, scanSide, restoreSide, cleanupRequested, cancelCleanupPending,
                   isDryRun, scanResults, currentSession, categoryStats, settings>>

\* the rejection of create_restore_point swallowed: the run goes on to clean
RestorePointRejectIgnored(r, failure) ==
    /\ runs[r].pc = "awaitRestorePoint"
    /\ runs' = [runs EXCEPT ![r] =
            [@ EXCEPT !.pc = "awaitCleanup", !.cleanupRequests = @ + 1,
                      !.cleanupArgs = <<ItemIds(runs[r].items), runs[r].dryRun,
                                        runs[r].secureDelete>>]]
    /\ cleanupRequested' = TRUE
    /\ UNCHANGED <<viewSide, finderSide, scanSide, ledgerSide, restoreSide, isCleaning, cleanupProgress,
                   cancelCleanupPending, isDryRun, scanResults, currentSession,
                   categoryStats, settings>>

\* create_restore_point rejects
RestorePointReject(r, failure) ==
    /\ runs[r].pc = "awaitRestorePoint"
    /\ CatchAndFinally(r, failure)

\* perform_cleanup resolves with a session
CleanupResolve(r, session) ==
    LET run == runs[r] IN
    /\ run.pc = "awaitCleanup"
    /\ currentSession' = Some(session)
    /\ scanResults' = DeselectAllResultsOp(scanResults)
    /\ Notify(SuccessNotification(run.dryRun, run.size, Len(run.items), session))
    /\ isCleaning' = FALSE
    /\ cleanupProgress' = None
    /\ runs' = [runs EXCEPT ![r] = Returned]
    /\ UNCHANGED <<viewSide, finderSide, scanSide, restoreSide, cleanupRequested, cancelCleanupPending,
                   isDryRun, categoryStats, settings>>

\* a rejection handler that takes the run's restore point back out of the ledger
CleanupRejectRollsBack(r, failure) ==
    /\ runs[r].pc = "awaitCleanup"
    /\ Notify(FailureNotification(failure))
    /\ isCleaning' = FALSE
    /\ cleanupProgress' = None
    /\ runs' = [runs EXCEPT ![r] = Returned]
    /\ restorePoints' = IF runs[r].rpAppended > 0 /\ restorePoints # <<>>
                        THEN Tail(restorePoints)
                        ELSE restorePoints
    /\ UNCHANGED <<viewSide, finderSide, scanSide, nextPointId, cleanupRequested,
                   cancelCleanupPending, isDryRun, scanResults, currentSession,
                   categoryStats, settings>>

\* perform_cleanup rejects
CleanupReject(r, failure) ==
    /\ runs[r].pc = "awaitCleanup"
    /\ CatchAndFinally(r, failure)

\* a cleanup-progress event reaches the listener
CleanupProgressEvent(payload) ==
    /\ cleanupRequested
    /\ cleanupProgress' = Some(payload)
    /\ UNCHANGED <<viewSide, finderSide, scanSide, ledgerSide, restoreSide, isCleaning, runs,
                   cleanupRequested, cancelCleanupPending, isDryRun, scanResults, currentSession,
                   categoryStats, settings>>

\* cancelCleanup up to its await
CancelCleanup ==
    /\ Budget
    /\ cancelCleanupPending' = cancelCleanupPending + 1
    /\ UNCHANGED <<viewSide, finderSide, scanSide, ledgerSide, restoreSide, isCleaning, cleanupProgress,
                   runs, cleanupRequested, isDryRun, scanResults, currentSession, categoryStats,
                   settings>>

\* an acknowledgement that forgets the local progress
CancelCleanupAckKeepsProgress ==
    /\ cancelCleanupPending > 0
    /\ cancelCleanupPending' = cancelCleanupPending - 1
    /\ isCleaning' = FALSE
    /\ Notify(CancelledNotification)
    /\ UNCHANGED <<viewSide, finderSide, scanSide, restoreSide, cleanupProgress, runs,
                   cleanupRequested, isDryRun, scanResults, currentSession,
                   categoryStats, settings>>

\* cancel_cleanup is acknowledged
CancelCleanupAck ==
    /\ cancelCleanupPending > 0
    /\ cancelCleanupPending' = cancelCleanupPending - 1
    /\ isCleaning' = FALSE
    /\ cleanupProgress' = None
    /\ Notify(CancelledNotification)
    /\ UNCHANGED <<viewSide, finderSide, scanSide, restoreSide, runs, cleanupRequested, isDryRun,
                   scanResults, currentSession, categoryStats, settings>>

\* cancel_cleanup rejects: console.error only
CancelCleanupReject ==
    /\ cancelCleanupPending > 0
    /\ cancelCleanupPending' = cancelCleanupPending - 1
    /\ UNCHANGED <<viewSide, finderSide, scanSide, ledgerSide, restoreSide, isCleaning, cleanupProgress,
                   runs, cleanupRequested, isDryRun, scanResults, currentSession, categoryStats,
                   settings>>

-----------------------------------------------------------------------------
(* hooks/useScanner.ts *)

RemoveAt(seq, i) == SubSeq(seq, 1, i - 1) \o SubSeq(seq, i + 1, Len(seq))

\* a startScan that raises the flag without seeding the progress
StartScanUnseeded(categories) ==
    /\ Budget
    /\ Len(scanRequests) < MaxScans
    /\ isScanning' = TRUE
    /\ scanRequests' = Append(scanRequests, categories)
    /\ UNCHANGED <<viewSide, finderSide, cleanSide, ledgerSide, restoreSide, scanProgress,
                   scanStarted, cancelScanPending, isDryRun, scanResults,
                   currentSession, categoryStats, settings>>

\* startScan up to its await
StartScan(categories) ==
    /\ Budget
    /\ Len(scanRequests) < MaxScans
    /\ isScanning' = TRUE
    /\ scanProgress' = Some(InitialScanProgress)
    /\ scanRequests' = Append(scanRequests, categories)
    /\ UNCHANGED <<viewSide, finderSide, cleanSide, ledgerSide, restoreSide, scanStarted,
                   cancelScanPending, isDryRun, scanResults, currentSession,
                   categoryStats, settings>>

\* start_scan resolves with a scan id, which startScan drops
StartScanResolve(i) ==
    /\ i \in DOMAIN scanRequests
    /\ scanRequests' = RemoveAt(scanRequests, i)
    /\ scanStarted' = TRUE
    /\ UNCHANGED <<viewSide, finderSide, cleanSide, ledgerSide, restoreSide, isScanning, scanProgress,
                   cancelScanPending, isDryRun, scanResults, currentSession,
                   categoryStats, settings>>

\* a rejection handler that leaves the seeded progress in place
StartScanRejectKeepsProgress(i, failure) ==
    /\ i \in DOMAIN scanRequests
    /\ scanRequests' = RemoveAt(scanRequests, i)
    /\ isScanning' = FALSE
    /\ Notify(ScanFailedNotification(failure))
    /\ UNCHANGED <<viewSide, finderSide, cleanSide, restoreSide, scanProgress, scanStarted,
                   cancelScanPending, isDryRun, scanResults, currentSession,
                   categoryStats, settings>>

\* start_scan rejects
StartScanReject(i, failure) ==
    /\ i \in DOMAIN scanRequests
    /\ scanRequests' = RemoveAt(scanRequests, i)
    /\ isScanning' = FALSE
    /\ scanProgress' = None
    /\ Notify(ScanFailedNotification(failure))
    /\ UNCHANGED <<viewSide, finderSide, cleanSide, restoreSide, scanStarted, cancelScanPending,
                   isDryRun, scanResults, currentSession, categoryStats, settings>>

\* cancelScan up to its await
CancelScan ==
    /\ Budget
    /\ cancelScanPending' = cancelScanPending + 1
    /\ UNCHANGED <<viewSide, finderSide, cleanSide, ledgerSide, restoreSide, isScanning, scanProgress,
                   scanRequests, scanStarted, isDryRun, scanResults,
                   currentSession, categoryStats, settings>>

\* an acknowledgement that also throws the stored results away
CancelScanAckDropsResults ==
    /\ cancelScanPending > 0
    /\ cancelScanPending' = cancelScanPending - 1
    /\ isScanning' = FALSE
    /\ scanProgress' = None
    /\ scanResults' = <<>>
    /\ Notify(ScanCancelledNotification)
    /\ UNCHANGED <<viewSide, finderSide, cleanSide, restoreSide, scanRequests, scanStarted,
                   isDryRun, currentSession, categoryStats, settings>>

\* cancel_scan is acknowledged
CancelScanAck ==
    /\ cancelScanPending > 0
    /\ cancelScanPending' = cancelScanPending - 1
    /\ isScanning' = FALSE
    /\ scanProgress' = None
    /\ Notify(ScanCancelledNotification)
    /\ UNCHANGED <<viewSide, finderSide, cleanSide, restoreSide, scanRequests, scanStarted, isDryRun,
                   scanResults, currentSession, categoryStats, settings>>

\* cancel_scan rejects: console.error only
CancelScanReject ==
    /\ cancelScanPending > 0
    /\ cancelScanPending' = cancelScanPending - 1
    /\ UNCHANGED <<viewSide, finderSide, cleanSide, ledgerSide, restoreSide, isScanning, scanProgress,
                   scanRequests, scanStarted, isDryRun, scanResults,
                   currentSession, categoryStats, settings>>

\* the engine pushes scan events once it has been asked to scan
EngineScanning == scanStarted \/ scanRequests # <<>>

\* a listener that never lets the stored percentage go down
ScanProgressEventMonotone(payload) ==
    /\ EngineScanning
    /\ scanProgress' =
          IF scanProgress # None /\ scanProgress[1].progress > payload.progress
          THEN Some([payload EXCEPT !.progress = scanProgress[1].progress])
          ELSE Some(payload)
    /\ UNCHANGED <<viewSide, finderSide, cleanSide, ledgerSide, restoreSide, isScanning,
                   scanRequests, scanStarted, cancelScanPending, isDryRun,
                   scanResults, currentSession, categoryStats, settings>>

\* a scan-progress event reaches the listener
ScanProgressEvent(payload) ==
    /\ EngineScanning
    /\ scanProgress' = Some(payload)
    /\ UNCHANGED <<viewSide, finderSide, cleanSide, ledgerSide, restoreSide, isScanning, scanRequests,
                   scanStarted, cancelScanPending, isDryRun, scanResults,
                   currentSession, categoryStats, settings>>

\* a listener that stores the list and leaves the rest to a later step
ScanCompleteStoresOnly(results) ==
    /\ Budget
    /\ EngineScanning
    /\ scanResults' = results
    /\ UNCHANGED <<viewSide, finderSide, scanSide, cleanSide, ledgerSide, restoreSide,
                   isDryRun, currentSession, categoryStats, settings>>

\* a scan-complete event reaches the listener
ScanCompleteEvent(results) ==
    /\ Budget
    /\ EngineScanning
    /\ scanResults' = results
    /\ isScanning' = FALSE
    /\ scanProgress' = None
    /\ categoryStats' = CategoryStatsOf(results)
    /\ Notify(ScanCompleteNotification(results))
    /\ UNCHANGED <<viewSide, finderSide, cleanSide, restoreSide, scanRequests, scanStarted,
                   cancelScanPending, isDryRun, currentSession, settings>>

-----------------------------------------------------------------------------
(* stores/appStore.ts: actions the views call *)

ToggleResultSelection(id) ==
    /\ scanResults' = ToggleResultSelectionOp(scanResults, id)
    /\ UNCHANGED <<viewSide, finderSide, scanSide, cleanSide, ledgerSide, restoreSide, isDryRun,
                   currentSession, categoryStats, settings>>

SelectAllResults(category) ==
    /\ scanResults' = SelectAllResultsOp(scanResults, category)
    /\ UNCHANGED <<viewSide, finderSide, scanSide, cleanSide, ledgerSide, restoreSide, isDryRun,
                   currentSession, categoryStats, settings>>

DeselectAllResults ==
    /\ scanResults' = DeselectAllResultsOp(scanResults)
    /\ UNCHANGED <<viewSide, finderSide, scanSide, cleanSide, ledgerSide, restoreSide, isDryRun,
                   currentSession, categoryStats, settings>>

SetIsDryRun(dryRun) ==
    /\ isDryRun' = dryRun
    /\ UNCHANGED <<viewSide, finderSide, scanSide, cleanSide, ledgerSide, restoreSide, scanResults,
                   currentSession, categoryStats, settings>>

UpdateSettings(partial) ==
    /\ settings' = MergeSettings(settings, partial)
    /\ UNCHANGED <<viewSide, finderSide, scanSide, cleanSide, ledgerSide, restoreSide, isDryRun,
                   scanResults, currentSession, categoryStats>>

\* a reset that wipes the notification ledger as well
ResetWithLedger ==
    /\ scanResults' = <<>>
    /\ duplicates' = <<>>
    /\ largeFiles' = <<>>
    /\ currentSession' = None
    /\ scanProgress' = None
    /\ isScanning' = FALSE
    /\ isCleaning' = FALSE
    /\ notifications' = <<>>
    /\ UNCHANGED <<viewSide, restoreSide, nextNotifId, cleanupProgress, runs,
                   cleanupRequested, cancelCleanupPending, scanRequests, scanStarted,
                   cancelScanPending, isDryRun, categoryStats, settings>>

Reset ==
    /\ scanResults' = <<>>
    /\ duplicates' = <<>>
    /\ largeFiles' = <<>>
    /\ currentSession' = None
    /\ scanProgress' = None
    /\ isScanning' = FALSE
    /\ isCleaning' = FALSE
    /\ UNCHANGED <<viewSide, ledgerSide, restoreSide, cleanupProgress, runs,
                   cleanupRequested, cancelCleanupPending, scanRequests, scanStarted,
                   cancelScanPending, isDryRun, categoryStats, settings>>

\* the settings the orchestrators read
OrchestratorPartials ==
    { [createRestorePoints |-> b] : b \in BOOLEAN }

-----------------------------------------------------------------------------
(* The orchestrators on top of the store *)

Next ==
    \/ PerformCleanupEmpty
    \/ \E r \in RunIds : PerformCleanupStart(r)
    \/ \E r \in RunIds : RestorePointResolve(r)
    \/ \E r \in RunIds, f \in Failures : RestorePointReject(r, f)
    \/ \E r \in RunIds, session \in Sessions : CleanupResolve(r, session)
    \/ \E r \in RunIds, f \in Failures : CleanupReject(r, f)
    \/ \E p \in CleanupProgressPayloads : CleanupProgressEvent(p)
    \/ CancelCleanup
    \/ CancelCleanupAck
    \/ CancelCleanupReject
    \/ \E c \in ScanCategoryLists : StartScan(c)
    \/ \E i \in 1..MaxScans : StartScanResolve(i)
    \/ \E i \in 1..MaxScans, f \in Failures : StartScanReject(i, f)
    \/ CancelScan
    \/ CancelScanAck
    \/ CancelScanReject
    \/ \E p \in ProgressPayloads : ScanProgressEvent(p)
    \/ \E results \in ResultPayloads : ScanCompleteEvent(results)
    \/ \E id \in ResultIds : ToggleResultSelection(id)
    \/ \E c \in Categories \cup {NoCategory} : SelectAllResults(c)
    \/ DeselectAllResults
    \/ \E b \in BOOLEAN : SetIsDryRun(b)
    \/ \E p \in OrchestratorPartials : UpdateSettings(p)
    \/ Reset

Spec == Init /\ [][Next]_vars

-----------------------------------------------------------------------------
(* The cleanup orchestrator on the results of a completed scan *)

\* the store after startScan, the engine's acceptance and a scan-complete event
CleanupInit ==
    \E results \in ResultPayloads :
        /\ isScanning = FALSE
        /\ isCleaning = FALSE
        /\ isDryRun = TRUE
        /\ scanResults = results
        /\ currentSession = None
        /\ restorePoints = <<>>
        /\ scanProgress = None
        /\ notifications = AddNotificationOp(<<>>, ScanCompleteNotification(results), 1)
        /\ categoryStats = CategoryStatsOf(results)
        /\ settings = defaultSettings
        /\ cleanupProgress = None
        /\ runs = [r \in RunIds |-> IdleRun]
        /\ cleanupRequested = FALSE
        /\ scanRequests = <<>>
        /\ scanStarted = TRUE
        /\ cancelScanPending = 0
        /\ cancelCleanupPending = 0
        /\ nextNotifId = 2
        /\ nextPointId = 1
        /\ duplicates = <<>>
        /\ largeFiles = <<>>
        /\ ViewInit

CleanupNext ==
    \/ PerformCleanupEmpty
    \/ \E r \in RunIds : PerformCleanupStart(r)
    \/ \E r \in RunIds : RestorePointResolve(r)
    \/ \E r \in RunIds, f \in Failures : RestorePointReject(r, f)
    \/ \E r \in RunIds, session \in Sessions : CleanupResolve(r, session)
    \/ \E r \in RunIds, f \in Failures : CleanupReject(r, f)
    \/ \E p \in CleanupProgressPayloads : CleanupProgressEvent(p)
    \/ CancelCleanup
    \/ CancelCleanupAck
    \/ CancelCleanupReject
    \/ \E results \in ResultPayloads : ScanCompleteEvent(results)
    \/ \E id \in ResultIds : ToggleResultSelection(id)
    \/ \E c \in Categories \cup {NoCategory} : SelectAllResults(c)
    \/ DeselectAllResults
    \/ \E b \in BOOLEAN : SetIsDryRun(b)
    \/ \E p \in OrchestratorPartials : UpdateSettings(p)
    \/ Reset

CleanupSpec == CleanupInit /\ [][CleanupNext]_vars

\* the cleanup orchestrator's own operations and the engine, with the views'
\* selection and dry-run controls
CleanupRunNext ==
    \/ \E r \in RunIds : PerformCleanupStart(r)
    \/ \E r \in RunIds : RestorePointResolve(r)
    \/ \E r \in RunIds, f \in Failures : RestorePointReject(r, f)
    \/ \E r \in RunIds, session \in Sessions : CleanupResolve(r, session)
    \/ \E r \in RunIds, f \in Failures : CleanupReject(r, f)
    \/ \E p \in CleanupProgressPayloads : CleanupProgressEvent(p)
    \/ CancelCleanup
    \/ CancelCleanupAck
    \/ CancelCleanupReject
    \/ \E id \in ResultIds : ToggleResultSelection(id)
    \/ \E b \in BOOLEAN : SetIsDryRun(b)

CleanupRunSpec == CleanupInit /\ [][CleanupRunNext]_vars

\* every engine call of a run is eventually answered
EngineReply(r) ==
    \/ RestorePointResolve(r)
    \/ \E f \in Failures : RestorePointReject(r, f)
    \/ \E session \in Sessions : CleanupResolve(r, session)
    \/ \E f \in Failures : CleanupReject(r, f)

LiveSpec ==
    CleanupInit /\ [][CleanupNext]_vars /\ \A r \in RunIds : WF_vars(EngineReply(r))

-----------------------------------------------------------------------------
(* The notification ledger under the store's own actions *)

AddNotification(partial) ==
    /\ nextNotifId <= MaxLedgerAdds
    /\ Notify(partial)
    /\ UNCHANGED <<viewSide, finderSide, scanSide, cleanSide, restoreSide, isDryRun, scanResults,
                   currentSession, categoryStats, settings>>

MarkNotificationRead(id) ==
    /\ notifications' = MarkNotificationReadOp(notifications, id)
    /\ UNCHANGED <<viewSide, finderSide, scanSide, cleanSide, restoreSide, nextNotifId, isDryRun,
                   scanResults, currentSession, categoryStats, settings>>

ClearNotifications ==
    /\ notifications' = <<>>
    /\ UNCHANGED <<viewSide, finderSide, scanSide, cleanSide, restoreSide, nextNotifId, isDryRun,
                   scanResults, currentSession, categoryStats, settings>>

LedgerPartials == { CancelledNotification }

NotifNext ==
    \/ \E partial \in LedgerPartials : AddNotification(partial)
    \/ \E id \in 1..MaxReadId : MarkNotificationRead(id)
    \/ ClearNotifications

NotifSpec == Init /\ [][NotifNext]_vars

-----------------------------------------------------------------------------
(* The restore-point ledger under the store's own actions *)

AddRestorePoint(point) ==
    /\ nextPointId <= MaxPoints
    /\ point.id = nextPointId
    /\ restorePoints' = AddRestorePointOp(restorePoints, settings.maxRestorePoints, point)
    /\ nextPointId' = nextPointId + 1
    /\ UNCHANGED <<viewSide, finderSide, scanSide, cleanSide, ledgerSide, isDryRun, scanResults,
                   currentSession, categoryStats, settings>>

\* restore points the engine hands out, each with a new identity
EnginePoints == { [id |-> n, itemCount |-> 1] : n \in 1..(MaxPoints + 1) }

CapPartials == { [maxRestorePoints |-> c] : c \in 1..MaxCapChoice }

RestoreNext ==
    \/ \E point \in EnginePoints : AddRestorePoint(point)
    \/ \E p \in CapPartials : UpdateSettings(p)

RestoreSpec == Init /\ [][RestoreNext]_vars

-----------------------------------------------------------------------------
(* The scan orchestrator on its own *)

\* category lists the views pass to startScan
ScanCategoryChoices == ScanCategoryLists \cup { <<"log_files">> }

\* progress payloads of two phases; the engine decides their order
ScanPhasePayloads ==
    ProgressPayloads \cup
    { [phase |-> "analyzing", currentPath |-> "/var/log", filesScanned |-> 9,
       issuesFound |-> 2, estimatedTime |-> 1, progress |-> 80] }

ScanNext ==
    \/ \E c \in ScanCategoryChoices : StartScan(c)
    \/ \E i \in 1..MaxScans : StartScanResolve(i)
    \/ \E i \in 1..MaxScans, f \in Failures : StartScanReject(i, f)
    \/ CancelScan
    \/ CancelScanAck
    \/ CancelScanReject
    \/ \E p \in ScanPhasePayloads : ScanProgressEvent(p)
    \/ \E results \in ResultPayloads : ScanCompleteEvent(results)
    \/ \E id \in ResultIds : ToggleResultSelection(id)
    \/ Reset

ScanSpec == Init /\ [][ScanNext]_vars

-----------------------------------------------------------------------------
(* The scan orchestrator's own operations and the engine, without the views *)

CancelNext ==
    \/ \E c \in ScanCategoryChoices : StartScan(c)
    \/ \E i \in 1..MaxScans : StartScanResolve(i)
    \/ \E i \in 1..MaxScans, f \in Failures : StartScanReject(i, f)
    \/ CancelScan
    \/ CancelScanAck
    \/ CancelScanReject
    \/ \E p \in ScanPhasePayloads : ScanProgressEvent(p)
    \/ \E results \in ResultPayloads : ScanCompleteEvent(results)

CancelSpec == Init /\ [][CancelNext]_vars

-----------------------------------------------------------------------------
(* Completion events over result lists of mixed categories *)

StatsKinds ==
    { [size |-> 100, category |-> "temp_files"],
      [size |-> 50, category |-> "temp_files"],
      [size |-> 30, category |-> "log_files"] }

StatsIds == <<"a", "b", "c">>

\* every result list of at most MaxStatsLen results of these kinds
StatsPayloads ==
    UNION { { [i \in 1..n |-> Result(StatsIds[i], k[i].size, k[i].category, FALSE)] :
                k \in [1..n -> StatsKinds] } : n \in 0..MaxStatsLen }

StatsNext ==
    \/ \E results \in StatsPayloads : ScanCompleteEvent(results)
    \/ \E p \in ProgressPayloads : ScanProgressEvent(p)

StatsSpec == CleanupInit /\ [][StatsNext]_vars

-----------------------------------------------------------------------------
(* The store under its plain setters and reset *)

\* a member of a duplicate group; modified is its modification time
DupFile(id, modified) ==
    [id |-> id, size |-> 10, modified |-> modified, isSelected |-> FALSE]

\* three copies with distinct modification times, not in time order
GroupOfThree ==
    [hash |-> "h1",
     files |-> << DupFile("d1", 3), DupFile("d2", 1), DupFile("d3", 2) >>,
     totalSize |-> 30, potentialSavings |-> 20]

\* two copies modified at the same time
GroupOfTwo ==
    [hash |-> "h2", files |-> << DupFile("e1", 5), DupFile("e2", 5) >>,
     totalSize |-> 20, potentialSavings |-> 10]

\* results of find_duplicates
DuplicateLists == { <<>>, << GroupOfThree >>, << GroupOfThree, GroupOfTwo >> }

LargeFileLists ==
    { <<>>, << [id |-> "l1", size |-> 4096, isSelected |-> FALSE] >> }

SetIsScanning(scanning) ==
    /\ isScanning' = scanning
    /\ UNCHANGED <<viewSide, finderSide, cleanSide, ledgerSide, restoreSide, scanProgress,
                   scanRequests, scanStarted, cancelScanPending, isDryRun,
                   scanResults, currentSession, categoryStats, settings>>

SetIsCleaning(cleaning) ==
    /\ isCleaning' = cleaning
    /\ UNCHANGED <<viewSide, finderSide, scanSide, ledgerSide, restoreSide, cleanupProgress,
                   runs, cleanupRequested, cancelCleanupPending, isDryRun,
                   scanResults, currentSession, categoryStats, settings>>

SetScanResults(results) ==
    /\ scanResults' = results
    /\ UNCHANGED <<viewSide, finderSide, scanSide, cleanSide, ledgerSide, restoreSide,
                   isDryRun, currentSession, categoryStats, settings>>

SetDuplicates(groups) ==
    /\ duplicates' = groups
    /\ UNCHANGED <<viewSide, scanSide, cleanSide, ledgerSide, restoreSide, largeFiles,
                   isDryRun, scanResults, currentSession, categoryStats, settings>>

SetLargeFiles(files) ==
    /\ largeFiles' = files
    /\ UNCHANGED <<viewSide, scanSide, cleanSide, ledgerSide, restoreSide, duplicates,
                   isDryRun, scanResults, currentSession, categoryStats, settings>>

SetCurrentSession(session) ==
    /\ currentSession' = session
    /\ UNCHANGED <<viewSide, finderSide, scanSide, cleanSide, ledgerSide, restoreSide,
                   isDryRun, scanResults, categoryStats, settings>>

SetScanProgress(progress) ==
    /\ scanProgress' = progress
    /\ UNCHANGED <<viewSide, finderSide, cleanSide, ledgerSide, restoreSide, isScanning,
                   scanRequests, scanStarted, cancelScanPending, isDryRun,
                   scanResults, currentSession, categoryStats, settings>>

StoreNext ==
    \/ \E b \in BOOLEAN : SetIsScanning(b)
    \/ \E b \in BOOLEAN : SetIsCleaning(b)
    \/ \E results \in ResultPayloads : SetScanResults(results)
    \/ \E groups \in DuplicateLists : SetDuplicates(groups)
    \/ \E files \in LargeFileLists : SetLargeFiles(files)
    \/ \E session \in Sessions : SetCurrentSession(Some(session))
    \/ \E p \in ProgressPayloads : SetScanProgress(Some(p))
    \/ \E partial \in LedgerPartials : nextNotifId < MaxNotifs /\ AddNotification(partial)
    \/ \E point \in EnginePoints : nextPointId < MaxCapChoice /\ AddRestorePoint(point)
    \/ \E p \in OrchestratorPartials : UpdateSettings(p)
    \/ Reset

\* from the store a completed scan leaves behind
StoreSpec == CleanupInit /\ [][StoreNext]_vars

-----------------------------------------------------------------------------
(* The selection actions over result lists of mixed categories *)

SelectionKinds ==
    { [size |-> z, category |-> c] : z \in {100, 200}, c \in Categories }

\* every list of at most MaxSelLen results, as the engine delivers them
SelectionLists ==
    UNION { { [i \in 1..n |-> Result(StatsIds[i], k[i].size, k[i].category, FALSE)] :
                k \in [1..n -> SelectionKinds] } : n \in 0..MaxSelLen }

SelectionNext ==
    \/ \E results \in SelectionLists : SetScanResults(results)
    \/ \E id \in ResultIds : ToggleResultSelection(id)
    \/ \E c \in Categories \cup {NoCategory} : SelectAllResults(c)
    \/ DeselectAllResults

SelectionSpec == Init /\ [][SelectionNext]_vars

-----------------------------------------------------------------------------
(* components/views/Duplicates.tsx *)

DuplicateHashes == {"h1", "h2"}
DuplicateFileIds == {"d1", "d2", "d3", "e1", "e2"}
Strategies == {"oldest", "newest"}

\* replies of delete_duplicates
DeleteReplies == { [deleted |-> 1, freed |-> 10], [deleted |-> 2, freed |-> 20] }

\* [...files].sort by modification time; Array.prototype.sort is stable
RECURSIVE InsertByModified(_, _)
InsertByModified(sorted, f) ==
    IF sorted = <<>> THEN <<f>>
    ELSE IF f.modified < Head(sorted).modified THEN <<f>> \o sorted
    ELSE <<Head(sorted)>> \o InsertByModified(Tail(sorted), f)

RECURSIVE SortByModified(_)
SortByModified(files) ==
    IF files = <<>> THEN <<>>
    ELSE InsertByModified(SortByModified(SubSeq(files, 1, Len(files) - 1)),
                          files[Len(files)])

\* the member smartSelect keeps in a group
ToKeep(group, strategy) ==
    LET sorted == SortByModified(group.files)
    IN IF strategy = "oldest" THEN sorted[1] ELSE sorted[Len(sorted)]

\* a smart select that keeps the first member listed
SmartSelectKeepsFirst(groups, strategy) ==
    [g \in DOMAIN groups |->
        [groups[g] EXCEPT !.files =
            [i \in DOMAIN groups[g].files |->
                [groups[g].files[i] EXCEPT !.isSelected = (i # 1)]]]]

SmartSelectOp(groups, strategy) ==
    [g \in DOMAIN groups |->
        LET toKeep == ToKeep(groups[g], strategy)
        IN [groups[g] EXCEPT !.files =
              [i \in DOMAIN groups[g].files |->
                  [groups[g].files[i] EXCEPT
                      !.isSelected = (groups[g].files[i].id # toKeep.id)]]]]

\* the checkbox of one member
ToggleDuplicateOp(groups, hash, id) ==
    [g \in DOMAIN groups |->
        IF groups[g].hash = hash
        THEN [groups[g] EXCEPT !.files =
                [i \in DOMAIN groups[g].files |->
                    IF groups[g].files[i].id = id
                    THEN [groups[g].files[i] EXCEPT !.isSelected = ~@]
                    ELSE groups[g].files[i]]]
        ELSE groups[g]]

IsSelectedFile(f) == f.isSelected
IsUnselectedFile(f) == ~f.isSelected

\* duplicates.flatMap(g => g.files.filter(f => f.isSelected).map(f => f.id))
RECURSIVE SelectedIds(_)
SelectedIds(groups) ==
    IF groups = <<>> THEN <<>>
    ELSE LET picked == SelectSeq(Head(groups).files, IsSelectedFile)
         IN [i \in DOMAIN picked |-> picked[i].id] \o SelectedIds(Tail(groups))

DuplicatesFoundNotification(results) ==
    [type |-> "success", title |-> "Scan Complete",
     message |-> [text |-> "Found sets of duplicates", bytes |-> NoBytes,
                  n |-> Len(results)]]

DuplicatesFailedNotification ==
    [type |-> "error", title |-> "Error", message |-> Text("Failed to find duplicates")]

DuplicatesDeletedNotification(res) ==
    [type |-> "success", title |-> "Cleanup Complete",
     message |-> [text |-> "Deleted duplicates, freeing",
                  bytes |-> FormatBytes(res.freed), n |-> res.deleted]]

DeleteFailedNotification ==
    [type |-> "error", title |-> "Error",
     message |-> Text("Failed to delete duplicates")]

\* a new request is made only while the ledger budget of the model allows every
\* request in flight to report: a deletion reports, and so does its re-scan
DuplicatesBudget(needed) ==
    (nextNotifId - 1) + findRequests + 2 * Len(deleteRequests) + needed <= MaxNotifs

\* scanDuplicates up to its await
ScanDuplicates ==
    /\ DuplicatesBudget(1)
    /\ loading' = TRUE
    /\ findRequests' = findRequests + 1
    /\ UNCHANGED <<finderSide, scanSide, cleanSide, ledgerSide, restoreSide,
                   sidebarCollapsed, deleteRequests, mounted, listeners, isDryRun,
                   scanResults, currentSession, categoryStats, settings>>

\* find_duplicates resolves
FindDuplicatesResolve(results) ==
    /\ findRequests > 0
    /\ findRequests' = findRequests - 1
    /\ duplicates' = results
    /\ Notify(DuplicatesFoundNotification(results))
    /\ loading' = FALSE
    /\ UNCHANGED <<scanSide, cleanSide, restoreSide, largeFiles, sidebarCollapsed,
                   deleteRequests, mounted, listeners, isDryRun, scanResults,
                   currentSession, categoryStats, settings>>

\* find_duplicates rejects
FindDuplicatesReject ==
    /\ findRequests > 0
    /\ findRequests' = findRequests - 1
    /\ Notify(DuplicatesFailedNotification)
    /\ loading' = FALSE
    /\ UNCHANGED <<finderSide, scanSide, cleanSide, restoreSide, sidebarCollapsed,
                   deleteRequests, mounted, listeners, isDryRun, scanResults,
                   currentSession, categoryStats, settings>>

SmartSelect(strategy) ==
    /\ duplicates' = SmartSelectOp(duplicates, strategy)
    /\ UNCHANGED <<viewSide, scanSide, cleanSide, ledgerSide, restoreSide,
                   largeFiles, isDryRun, scanResults, currentSession,
                   categoryStats, settings>>

ToggleDuplicate(hash, id) ==
    /\ duplicates' = ToggleDuplicateOp(duplicates, hash, id)
    /\ UNCHANGED <<viewSide, scanSide, cleanSide, ledgerSide, restoreSide,
                   largeFiles, isDryRun, scanResults, currentSession,
                   categoryStats, settings>>

\* a deleteSelected that prunes the selected members from the stored groups
DeleteSelectedPrunes ==
    /\ DuplicatesBudget(2)
    /\ SelectedIds(duplicates) # <<>>
    /\ loading' = TRUE
    /\ deleteRequests' = Append(deleteRequests, SelectedIds(duplicates))
    /\ duplicates' =
          [g \in DOMAIN duplicates |->
              [duplicates[g] EXCEPT !.files = SelectSeq(@, IsUnselectedFile)]]
    /\ UNCHANGED <<scanSide, cleanSide, ledgerSide, restoreSide, largeFiles,
                   sidebarCollapsed, findRequests, mounted, listeners, isDryRun,
                   scanResults, currentSession, categoryStats, settings>>

\* deleteSelected up to its await; it returns at once when nothing is selected
DeleteSelected ==
    /\ DuplicatesBudget(2)
    /\ IF SelectedIds(duplicates) = <<>>
       THEN UNCHANGED <<loading, deleteRequests>>
       ELSE /\ loading' = TRUE
            /\ deleteRequests' = Append(deleteRequests, SelectedIds(duplicates))
    /\ UNCHANGED <<finderSide, scanSide, cleanSide, ledgerSide, restoreSide,
                   sidebarCollapsed, findRequests, mounted, listeners, isDryRun,
                   scanResults, currentSession, categoryStats, settings>>

\* delete_duplicates resolves: the notification, then scanDuplicates() up to
\* its await (not awaited), then the finally block
DeleteDuplicatesResolve(i, res) ==
    /\ i \in DOMAIN deleteRequests
    /\ deleteRequests' = RemoveAt(deleteRequests, i)
    /\ Notify(DuplicatesDeletedNotification(res))
    /\ findRequests' = findRequests + 1
    /\ loading' = FALSE
    /\ UNCHANGED <<finderSide, scanSide, cleanSide, restoreSide, sidebarCollapsed,
                   mounted, listeners, isDryRun, scanResults, currentSession,
                   categoryStats, settings>>

\* delete_duplicates rejects
DeleteDuplicatesReject(i) ==
    /\ i \in DOMAIN deleteRequests
    /\ deleteRequests' = RemoveAt(deleteRequests, i)
    /\ Notify(DeleteFailedNotification)
    /\ loading' = FALSE
    /\ UNCHANGED <<finderSide, scanSide, cleanSide, restoreSide, sidebarCollapsed,
                   findRequests, mounted, listeners, isDryRun, scanResults,
                   currentSession, categoryStats, settings>>

DuplicatesNext ==
    \/ ScanDuplicates
    \/ \E results \in DuplicateLists : FindDuplicatesResolve(results)
    \/ FindDuplicatesReject
    \/ \E strategy \in Strategies : SmartSelect(strategy)
    \/ \E h \in DuplicateHashes, id \in DuplicateFileIds : ToggleDuplicate(h, id)
    \/ DeleteSelected
    \/ \E i \in 1..MaxNotifs, res \in DeleteReplies : DeleteDuplicatesResolve(i, res)
    \/ \E i \in 1..MaxNotifs : DeleteDuplicatesReject(i)

DuplicatesSpec == Init /\ [][DuplicatesNext]_vars

-----------------------------------------------------------------------------
(* The subscription effects of useScanner and useCleanup *)

ListenersOf(v) == {l \in ListenerIds : l[1] = v}

\* the engine has the handler and delivers events to it
Live(l) == listeners[l].state \in {"registered", "resolved"}

LiveOf(event) == {l \in ListenerIds : l[2] = event /\ Live(l)}

\* a view is rendered in place of none: its effects call listen
MountView(v) ==
    /\ mounted = {}
    /\ \A l \in ListenersOf(v) : listeners[l].state = "idle"
    /\ mounted' = {v}
    /\ listeners' = [l \in ListenerIds |->
                        IF l \in ListenersOf(v)
                        THEN [state |-> "requested", tornDown |-> FALSE]
                        ELSE listeners[l]]
    /\ UNCHANGED <<finderSide, scanSide, cleanSide, ledgerSide, restoreSide,
                   sidebarCollapsed, loading, findRequests, deleteRequests,
                   isDryRun, scanResults, currentSession, categoryStats, settings>>

\* the engine registers the handler of a listen call
ListenerRegistered(l) ==
    /\ listeners[l].state = "requested"
    /\ listeners' = [listeners EXCEPT ![l].state = "registered"]
    /\ UNCHANGED <<finderSide, scanSide, cleanSide, ledgerSide, restoreSide,
                   sidebarCollapsed, loading, findRequests, deleteRequests, mounted,
                   isDryRun, scanResults, currentSession, categoryStats, settings>>

\* the promise of a listen call resolves with the unlisten function; the
\* cleanup of a torn-down effect is waiting on it and calls it
ListenerResolved(l) ==
    /\ listeners[l].state = "registered"
    /\ listeners' = [listeners EXCEPT
                        ![l] = IF listeners[l].tornDown THEN IdleListener
                               ELSE [state |-> "resolved", tornDown |-> FALSE]]
    /\ UNCHANGED <<finderSide, scanSide, cleanSide, ledgerSide, restoreSide,
                   sidebarCollapsed, loading, findRequests, deleteRequests, mounted,
                   isDryRun, scanResults, currentSession, categoryStats, settings>>

\* the view is removed: the cleanup of each effect runs; a resolved
\* subscription is released at once, a pending one when its promise resolves
UnmountView(v) ==
    /\ v \in mounted
    /\ mounted' = {}
    /\ listeners' = [l \in ListenerIds |->
                        IF l \notin ListenersOf(v) THEN listeners[l]
                        ELSE IF listeners[l].state = "resolved" THEN IdleListener
                        ELSE [listeners[l] EXCEPT !.tornDown = TRUE]]
    /\ cleanupProgress' = IF v = "scanner" THEN None ELSE cleanupProgress
    /\ UNCHANGED <<finderSide, scanSide, ledgerSide, restoreSide, isCleaning, runs,
                   cleanupRequested, cancelCleanupPending, sidebarCollapsed,
                   loading, findRequests, deleteRequests, isDryRun, scanResults,
                   currentSession, categoryStats, settings>>

\* addNotification called once by each of n handlers
RECURSIVE AddNotificationTimes(_, _, _, _)
AddNotificationTimes(ledger, partial, id, n) ==
    IF n = 0 THEN ledger
    ELSE AddNotificationTimes(AddNotificationOp(ledger, partial, id), partial,
                              id + 1, n - 1)

\* the engine emits scan-progress: every live handler runs
EmitScanProgress(payload) ==
    /\ EngineScanning
    /\ scanProgress' = IF LiveOf("scan-progress") = {} THEN scanProgress
                       ELSE Some(payload)
    /\ UNCHANGED <<finderSide, viewSide, cleanSide, ledgerSide, restoreSide,
                   isScanning, scanRequests, scanStarted, cancelScanPending,
                   isDryRun, scanResults, currentSession, categoryStats, settings>>

\* the engine emits scan-complete: every live handler runs
EmitScanComplete(results) ==
    LET n == Cardinality(LiveOf("scan-complete"))
    IN /\ EngineScanning
       /\ (nextNotifId - 1) + InFlight + n <= MaxNotifs
       /\ IF n = 0
          THEN UNCHANGED <<scanResults, isScanning, scanProgress, categoryStats>>
          ELSE /\ scanResults' = results
               /\ isScanning' = FALSE
               /\ scanProgress' = None
               /\ categoryStats' = CategoryStatsOf(results)
       /\ notifications' = AddNotificationTimes(notifications,
                               ScanCompleteNotification(results), nextNotifId, n)
       /\ nextNotifId' = nextNotifId + n
       /\ UNCHANGED <<finderSide, viewSide, cleanSide, restoreSide, scanRequests,
                      scanStarted, cancelScanPending, isDryRun, currentSession,
                      settings>>

\* the engine emits cleanup-progress: the handler sets the local state of its
\* hook, which React drops once the hook's view is gone
EmitCleanupProgress(payload) ==
    /\ cleanupProgress' =
          IF \E l \in LiveOf("cleanup-progress") : ~listeners[l].tornDown
          THEN Some(payload)
          ELSE cleanupProgress
    /\ UNCHANGED <<finderSide, viewSide, scanSide, ledgerSide, restoreSide,
                   isCleaning, runs, cleanupRequested, cancelCleanupPending,
                   isDryRun, scanResults, currentSession, categoryStats, settings>>

SubscriptionNext ==
    \/ \E v \in Views : MountView(v)
    \/ \E v \in Views : UnmountView(v)
    \/ \E l \in ListenerIds : ListenerRegistered(l)
    \/ \E l \in ListenerIds : ListenerResolved(l)
    \/ \E c \in ScanCategoryLists : mounted # {} /\ StartScan(c)
    \/ \E i \in 1..MaxScans : StartScanResolve(i)
    \/ \E p \in ProgressPayloads : EmitScanProgress(p)
    \/ \E results \in ResultPayloads : EmitScanComplete(results)
    \/ \E p \in CleanupProgressPayloads : EmitCleanupProgress(p)

SubscriptionSpec == Init /\ [][SubscriptionNext]_vars

-----------------------------------------------------------------------------
(* The store across a restart of the process *)

SetSidebarCollapsed(collapsed) ==
    /\ sidebarCollapsed' = collapsed
    /\ UNCHANGED <<finderSide, scanSide, cleanSide, ledgerSide, restoreSide,
                   loading, findRequests, deleteRequests, mounted, listeners,
                   isDryRun, scanResults, currentSession, categoryStats, settings>>

\* a restart that also brings the notification ledger back
RestartKeepsLedger ==
    /\ isScanning' = FALSE
    /\ isCleaning' = FALSE
    /\ isDryRun' = TRUE
    /\ scanResults' = <<>>
    /\ duplicates' = <<>>
    /\ largeFiles' = <<>>
    /\ currentSession' = None
    /\ scanProgress' = None
    /\ categoryStats' = <<>>
    /\ cleanupProgress' = None
    /\ runs' = [r \in RunIds |-> IdleRun]
    /\ cleanupRequested' = FALSE
    /\ scanRequests' = <<>>
    /\ scanStarted' = FALSE
    /\ cancelScanPending' = 0
    /\ cancelCleanupPending' = 0
    /\ loading' = FALSE
    /\ findRequests' = 0
    /\ deleteRequests' = <<>>
    /\ mounted' = {}
    /\ listeners' = [l \in ListenerIds |-> IdleListener]
    /\ UNCHANGED <<settings, restoreSide, sidebarCollapsed, ledgerSide>>

\* the process stops and starts again: the store is created from its initial
\* state and the persisted part (partialize) is merged into it; the engine and
\* every call in flight are gone with the old process
Restart ==
    /\ isScanning' = FALSE
    /\ isCleaning' = FALSE
    /\ isDryRun' = TRUE
    /\ scanResults' = <<>>
    /\ duplicates' = <<>>
    /\ largeFiles' = <<>>
    /\ currentSession' = None
    /\ scanProgress' = None
    /\ notifications' = <<>>
    /\ categoryStats' = <<>>
    /\ cleanupProgress' = None
    /\ runs' = [r \in RunIds |-> IdleRun]
    /\ cleanupRequested' = FALSE
    /\ scanRequests' = <<>>
    /\ scanStarted' = FALSE
    /\ cancelScanPending' = 0
    /\ cancelCleanupPending' = 0
    /\ loading' = FALSE
    /\ findRequests' = 0
    /\ deleteRequests' = <<>>
    /\ mounted' = {}
    /\ listeners' = [l \in ListenerIds |-> IdleListener]
    /\ UNCHANGED <<settings, restoreSide, sidebarCollapsed, nextNotifId>>

RestartNext ==
    \/ \E c \in ScanCategoryLists : StartScan(c)
    \/ \E i \in 1..MaxScans : StartScanResolve(i)
    \/ \E p \in ProgressPayloads : ScanProgressEvent(p)
    \/ \E results \in ResultPayloads : ScanCompleteEvent(results)
    \/ \E r \in RunIds : PerformCleanupStart(r)
    \/ \E r \in RunIds : RestorePointResolve(r)
    \/ \E r \in RunIds, session \in Sessions : CleanupResolve(r, session)
    \/ \E b \in BOOLEAN : SetIsDryRun(b)
    \/ \E p \in OrchestratorPartials : UpdateSettings(p)
    \/ \E b \in BOOLEAN : SetSidebarCollapsed(b)
    \/ Restart

RestartSpec == Init /\ [][RestartNext]_vars

-----------------------------------------------------------------------------
(* The dry-run default of the settings and the cleanup runs.  The Settings
   view's 'Dry Run Mode' toggle calls updateSettings; no view calls
   setIsDryRun. *)

DryRunPartials == { [dryRunDefault |-> b] : b \in BOOLEAN }

DryRunNext ==
    \/ \E p \in DryRunPartials : UpdateSettings(p)
    \/ \E r \in RunIds : PerformCleanupStart(r)
    \/ \E r \in RunIds, session \in Sessions : CleanupResolve(r, session)
    \/ \E r \in RunIds, f \in Failures : CleanupReject(r, f)
    \/ \E id \in ResultIds : ToggleResultSelection(id)
    \/ \E c \in ScanCategoryLists : StartScan(c)
    \/ \E i \in 1..MaxScans : StartScanResolve(i)
    \/ \E results \in ResultPayloads : ScanCompleteEvent(results)
    \/ Restart

DryRunSpec == CleanupInit /\ [][DryRunNext]_vars

-----------------------------------------------------------------------------
(* Claims *)

Entry(id, type, title, message) ==
    [id |-> id, type |-> type, title |-> title, message |-> message, read |-> FALSE]

\* the step appended exactly the entry e at the head of the ledger
AppendedExactly(e) ==
    /\ Len(notifications') = Len(notifications) + 1
    /\ notifications'[1] = e
    /\ \A i \in DOMAIN notifications : notifications'[i + 1] = notifications[i]

\* C1: at most one start-scan request and at most one perform-cleanup request
\* is outstanding in any reachable state.
C1_SingleFlight ==
    /\ Len(scanRequests) <= 1
    /\ Cardinality({r \in RunIds : runs[r].pc = "awaitCleanup"}) <= 1

\* the shape of the ledger, and what a step that adds an entry does to it
C2_LedgerShape ==
    /\ Len(notifications) <= 50
    /\ \A i, j \in DOMAIN notifications :
          i < j => notifications[i].id > notifications[j].id

C2_AddStep ==
    nextNotifId' # nextNotifId =>
        /\ Len(notifications') = Min(Len(notifications) + 1, 50)
        /\ notifications'[1].id = nextNotifId
        /\ ~notifications'[1].read
        /\ \A i \in 2..Len(notifications') : notifications'[i] = notifications[i - 1]

\* C2: the notification ledger never holds more than 50 entries and is ordered
\* newest first; each addNotification puts the new unread entry at the head,
\* keeps the order of the survivors and drops entries only from the tail.
C2_NotificationLedger == [](C2_LedgerShape) /\ [][C2_AddStep]_vars

\* C2 witness: the ledger is full and its oldest entry has been dropped
C2_Witness ==
    /\ Len(notifications) = 50
    /\ notifications[50].id > 1

\* what a step that adds a restore point does to the ledger
C3_AddStep ==
    nextPointId' # nextPointId =>
        /\ Len(restorePoints') <= settings'.maxRestorePoints
        /\ Len(restorePoints') > 0 => restorePoints'[1].id = nextPointId
        /\ \A i \in 2..Len(restorePoints') : restorePoints'[i] = restorePoints[i - 1]

\* C3: after every addRestorePoint the ledger is no longer than the current
\* settings.maxRestorePoints, the new point is at the head, and what is evicted
\* is exactly the oldest entry.
C3_RestoreLedgerCapped == [][C3_AddStep]_vars

\* a performCleanup step taken with nothing selected
C4_Step ==
    ((PerformCleanupEmpty \/ \E r \in RunIds : PerformCleanupStart(r))
        /\ \A i \in DOMAIN scanResults : ~scanResults[i].isSelected)
    => /\ runs' = runs
       /\ cleanupRequested' = cleanupRequested
       /\ nextPointId' = nextPointId
       /\ restorePoints' = restorePoints
       /\ isCleaning' = isCleaning
       /\ cleanupProgress' = cleanupProgress
       /\ currentSession' = currentSession
       /\ AppendedExactly(Entry(nextNotifId, "warning", "No Items Selected",
                                Text("Please select items to clean up")))

\* C4: performCleanup with no result selected makes no engine call, leaves
\* isCleaning and currentSession alone and appends exactly one warning
\* notification titled 'No Items Selected'.
C4_EmptySelection == [][C4_Step]_vars

\* C4 witness: the warning has been appended while nothing is selected
C4_Witness ==
    /\ notifications # <<>>
    /\ notifications[1].title = "No Items Selected"
    /\ scanResults # <<>>
    /\ \A i \in DOMAIN scanResults : ~scanResults[i].isSelected

\* the engine calls a run has made, and the steps that start a run or add a point
C5_RunShape ==
    \A r \in RunIds :
        LET run == runs[r]
            wanted == run.createRestorePoints /\ ~run.dryRun
        IN /\ run.pc = "awaitRestorePoint" =>
                wanted /\ run.rpRequests = 1 /\ run.rpAppended = 0
                       /\ run.cleanupRequests = 0
           /\ run.pc = "awaitCleanup" =>
                /\ run.rpRequests = (IF wanted THEN 1 ELSE 0)
                /\ run.rpAppended = run.rpRequests
                /\ run.cleanupRequests = 1
           /\ run.dryRun => run.rpRequests = 0 /\ run.rpAppended = 0

C5_Step ==
    /\ \A r \in RunIds :
          (runs[r].pc = "idle" /\ runs'[r].pc # "idle") =>
              /\ runs'[r].dryRun = isDryRun
              /\ runs'[r].createRestorePoints = settings.createRestorePoints
              /\ (runs'[r].pc = "awaitRestorePoint")
                    <=> (settings.createRestorePoints /\ ~isDryRun)
    /\ \A r \in RunIds :
          runs[r].pc = "awaitCleanup" => runs'[r].pc \in {"awaitCleanup", "idle"}
    /\ (restorePoints' # restorePoints \/ nextPointId' # nextPointId) =>
          /\ \E r \in RunIds :
                /\ runs[r].pc = "awaitRestorePoint"
                /\ runs'[r].pc = "awaitCleanup"
                /\ \A q \in RunIds \ {r} : runs'[q] = runs[q]
          /\ nextPointId' = nextPointId + 1
          /\ restorePoints'[1].id = nextPointId
          /\ Len(restorePoints') <= Len(restorePoints) + 1

\* C5: a run requests a restore point exactly when settings.createRestorePoints
\* is true and the run is not a dry run; the ledger gains a point only from such
\* a run's request being answered, once, and a dry run neither requests nor
\* appends one.
C5_RestorePointIff == [](C5_RunShape) /\ [][C5_Step]_vars

\* C5 witness: a real run with restore points enabled has had its restore point
\* appended and has gone on to the cleanup call
C5_Witness ==
    \E r \in RunIds :
        /\ runs[r].pc = "awaitCleanup"
        /\ runs[r].rpAppended = 1
        /\ restorePoints # <<>>

\* the step taken when create_restore_point rejects
C6_Step ==
    \A r \in RunIds, f \in Failures :
        RestorePointReject(r, f) =>
            /\ runs[r].cleanupRequests = 0
            /\ runs'[r].pc = "idle"
            /\ cleanupRequested' = cleanupRequested
            /\ restorePoints' = restorePoints
            /\ nextPointId' = nextPointId
            /\ currentSession' = currentSession
            /\ scanResults' = scanResults
            /\ AppendedExactly(Entry(nextNotifId, "error", "Cleanup Failed",
                    IF f.isError THEN Text(f.message)
                    ELSE Text("Unknown error occurred")))

\* C6: when create-restore-point rejects, the run issues no perform-cleanup
\* call, appends no restore point, leaves currentSession alone and appends
\* exactly one error notification carrying the failure reason.
C6_RestorePointRejected == [][C6_Step]_vars

\* C6 witness: a run was aborted by the rejection before any perform-cleanup
\* request reached the engine
C6_Witness ==
    /\ notifications # <<>>
    /\ notifications[1].title = "Cleanup Failed"
    /\ ~cleanupRequested
    /\ restorePoints = <<>>

\* C7: every run that passed the precondition and whose engine calls are
\* answered reaches a state with isCleaning false and no cleanup progress.
C7_CleanupTerminates ==
    \A r \in RunIds :
        AwaitingRun(r) ~>
            (runs[r].pc = "idle" /\ ~isCleaning /\ cleanupProgress = None)

\* C7 witness: a run has ended on the failure path with the flag and the
\* progress cleared
C7_Witness ==
    /\ \E r \in RunIds : runs[r].outcome = "returned"
    /\ notifications # <<>>
    /\ notifications[1].title = "Cleanup Failed"
    /\ ~isCleaning
    /\ cleanupProgress = None

\* the step taken when an engine call of a run rejects
C8_Step ==
    \A r \in RunIds, f \in Failures :
        (RestorePointReject(r, f) \/ CleanupReject(r, f)) =>
            /\ AppendedExactly(Entry(nextNotifId, "error", "Cleanup Failed",
                    [text |-> IF f.isError THEN f.message
                              ELSE "Unknown error occurred",
                     bytes |-> NoBytes, n |-> 0]))
            /\ runs'[r].pc = "idle"
            /\ runs'[r].outcome = "returned"

\* C8: a rejection of create-restore-point or of perform-cleanup appends exactly
\* one error notification titled 'Cleanup Failed' whose message is the
\* failure's message, or 'Unknown error occurred' when it has none, and
\* performCleanup returns to its caller.
C8_RejectionCaught == [][C8_Step]_vars

\* C8 witness: a failure that carries a message has been reported with it
C8_Witness ==
    /\ \E r \in RunIds : runs[r].outcome = "returned"
    /\ notifications # <<>>
    /\ notifications[1].title = "Cleanup Failed"
    /\ notifications[1].message.text = "disk full"

\* the step taken when perform_cleanup resolves
C9_Step ==
    \A r \in RunIds, session \in Sessions :
        CleanupResolve(r, session) =>
            /\ currentSession' = <<session>>
            /\ Len(scanResults') = Len(scanResults)
            /\ \A i \in DOMAIN scanResults :
                  /\ ~scanResults'[i].isSelected
                  /\ scanResults'[i].id = scanResults[i].id
                  /\ scanResults'[i].size = scanResults[i].size
                  /\ scanResults'[i].category = scanResults[i].category
            /\ Len(notifications') = Len(notifications) + 1
            /\ notifications'[1].type = "success"
            /\ notifications'[1].id = nextNotifId
            /\ \A i \in DOMAIN notifications : notifications'[i + 1] = notifications[i]

\* C9: when perform-cleanup resolves with a session, currentSession becomes that
\* session, every scan result ends unselected and exactly one success
\* notification is appended.
C9_SessionStored == [][C9_Step]_vars

\* C9 witness: a session is stored, its success notification is at the head
\* and nothing is selected
C9_Witness ==
    /\ currentSession # None
    /\ notifications # <<>>
    /\ notifications[1].title \in {"Dry Run Complete", "Cleanup Complete"}
    /\ scanResults # <<>>
    /\ \A i \in DOMAIN scanResults : ~scanResults[i].isSelected

\* the sum of the sizes of the results selected in a list
RECURSIVE C10_SelectedBytes(_)
C10_SelectedBytes(results) ==
    IF results = <<>> THEN 0
    ELSE (IF results[1].isSelected THEN results[1].size ELSE 0)
         + C10_SelectedBytes(Tail(results))

C10_SelectedCount(results) ==
    Cardinality({i \in DOMAIN results : results[i].isSelected})

\* the snapshot a run takes and keeps, and the message built on success
C10_Step ==
    /\ \A r \in RunIds :
          (runs[r].pc = "idle" /\ runs'[r].pc # "idle") =>
              /\ runs'[r].size = C10_SelectedBytes(scanResults)
              /\ Len(runs'[r].items) = C10_SelectedCount(scanResults)
              /\ runs'[r].dryRun = isDryRun
    /\ \A r \in RunIds :
          (AwaitingRun(r) /\ runs'[r].pc # "idle") =>
              /\ runs'[r].size = runs[r].size
              /\ runs'[r].items = runs[r].items
              /\ runs'[r].dryRun = runs[r].dryRun
    /\ \A r \in RunIds, session \in Sessions :
          CleanupResolve(r, session) =>
              /\ notifications'[1].title =
                    (IF runs[r].dryRun THEN "Dry Run Complete" ELSE "Cleanup Complete")
              /\ notifications'[1].message =
                    (IF runs[r].dryRun
                     THEN [text |-> "Would free", bytes |-> FormatBytes(runs[r].size),
                           n |-> Len(runs[r].items)]
                     ELSE [text |-> "Freed", bytes |-> FormatBytes(session.spaceFreed),
                           n |-> session.filesDeleted])
              /\ (runs[r].dryRun /\ runs[r].size = 300) =>
                    notifications'[1].message.bytes = [hundredths |-> 30000, unit |-> "B"]

\* C10: a dry run's success notification reports the byte sum and item count of
\* the selection as it was when performCleanup was invoked; a real run's reports
\* spaceFreed and filesDeleted of the returned session.
C10_SuccessMessage == [][C10_Step]_vars

\* C10 witness: a dry run of the two items of 100 and 200 bytes has reported
\* 300 B from 2 items while the returned session says otherwise
C10_Witness ==
    /\ notifications # <<>>
    /\ notifications[1].title = "Dry Run Complete"
    /\ notifications[1].message.bytes = [hundredths |-> 30000, unit |-> "B"]
    /\ notifications[1].message.n = 2
    /\ currentSession # None
    /\ currentSession[1].spaceFreed # 300

\* the three steps of cancelCleanup
C11_Step ==
    /\ CancelCleanup =>
          /\ cancelCleanupPending' = cancelCleanupPending + 1
          /\ isCleaning' = isCleaning
          /\ cleanupProgress' = cleanupProgress
          /\ notifications' = notifications
    /\ CancelCleanupAck =>
          /\ cancelCleanupPending' = cancelCleanupPending - 1
          /\ isCleaning' = FALSE
          /\ cleanupProgress' = None
          /\ AppendedExactly(Entry(nextNotifId, "info", "Cleanup Cancelled",
                                   Text("The cleanup operation was cancelled")))
    /\ CancelCleanupReject =>
          /\ cancelCleanupPending' = cancelCleanupPending - 1
          /\ notifications' = notifications
          /\ isCleaning' = isCleaning
          /\ cleanupProgress' = cleanupProgress

\* C11: cancelCleanup issues one cancellation request; its acknowledgement sets
\* isCleaning false, clears the cleanup progress and appends exactly one info
\* notification; its rejection appends nothing and leaves isCleaning and the
\* cleanup progress as they were.
C11_CancelCleanup == [][C11_Step]_vars

\* C11 witness: a cancellation was acknowledged while a run was under way and
\* had progress to show
C11_Witness ==
    /\ notifications # <<>>
    /\ notifications[1].title = "Cleanup Cancelled"
    /\ ~isCleaning
    /\ cleanupProgress = None
    /\ \E r \in RunIds : runs[r].pc = "awaitCleanup"

\* a startScan step taken in the Idle state
C12_Step ==
    \A c \in ScanCategoryChoices :
        (StartScan(c) /\ ~isScanning /\ scanProgress = None) =>
            /\ isScanning' = TRUE
            /\ scanProgress' =
                  << [phase |-> "initializing", currentPath |-> "",
                      filesScanned |-> 0, issuesFound |-> 0, estimatedTime |-> 0,
                      progress |-> 0] >>
            /\ Len(scanRequests') = Len(scanRequests) + 1
            /\ scanRequests'[Len(scanRequests')] = c
            /\ \A i \in DOMAIN scanRequests : scanRequests'[i] = scanRequests[i]

\* C12: startScan(categories) called in the Idle state sets isScanning true and
\* scanProgress to phase 'initializing' with progress 0 and zero counters by the
\* time the request is with the engine, and issues exactly one start-scan
\* request carrying the given categories.
C12_StartScan == [][C12_Step]_vars

\* C12 witness: one request for the log files is with the engine, the flag is
\* up and the progress is the seeded one
C12_Witness ==
    /\ isScanning
    /\ scanProgress # None
    /\ scanProgress[1].phase = "initializing"
    /\ scanRequests = << <<"log_files">> >>

\* the step taken when start_scan rejects
C13_Step ==
    \A i \in 1..MaxScans, f \in Failures :
        StartScanReject(i, f) =>
            /\ isScanning' = FALSE
            /\ scanProgress' = None
            /\ scanResults' = scanResults
            /\ AppendedExactly(Entry(nextNotifId, "error", "Scan Failed",
                    [text |-> IF f.isError THEN f.message
                              ELSE "Unknown error occurred",
                     bytes |-> NoBytes, n |-> 0]))

\* C13: when the start-scan request rejects, isScanning becomes false and
\* scanProgress absent, scanResults are unchanged and exactly one error
\* notification is appended with the failure's message or the fallback
\* 'Unknown error occurred'.
C13_StartScanRejected == [][C13_Step]_vars

\* C13 witness: a second scan was rejected with a value that is no Error, and
\* the results of the first scan are still stored
C13_Witness ==
    /\ notifications # <<>>
    /\ notifications[1].title = "Scan Failed"
    /\ notifications[1].message.text = "Unknown error occurred"
    /\ ~isScanning
    /\ scanProgress = None
    /\ scanResults # <<>>

\* the step taken when a scan-progress event is delivered
C14_Step ==
    \A p \in ScanPhasePayloads :
        ScanProgressEvent(p) =>
            /\ scanProgress' = <<p>>
            /\ isScanning' = isScanning
            /\ isCleaning' = isCleaning
            /\ isDryRun' = isDryRun
            /\ scanResults' = scanResults
            /\ categoryStats' = categoryStats
            /\ currentSession' = currentSession
            /\ notifications' = notifications
            /\ restorePoints' = restorePoints
            /\ settings' = settings
            /\ duplicates' = duplicates
            /\ largeFiles' = largeFiles

\* C14: each scan-progress event sets scanProgress to exactly its payload, so
\* after any sequence of events scanProgress is the payload delivered last, and
\* a progress event changes no other store field.
C14_ProgressOverwrite == [][C14_Step]_vars

\* C14 witness: during a scan the stored progress is the 40% payload of the
\* scanning phase, with results of an earlier scan in the store
C14_Witness ==
    /\ isScanning
    /\ scanProgress # None
    /\ scanProgress[1].phase = "scanning"
    /\ scanProgress[1].progress = 40
    /\ scanResults # <<>>

\* the identities of a result list
C15_Ids(results) == [i \in DOMAIN results |-> results[i].id]

\* a step that stores a new result list reconciles the whole store with it
C15_Step ==
    /\ (C15_Ids(scanResults') # C15_Ids(scanResults) /\ scanResults' # <<>>) =>
          /\ isScanning' = FALSE
          /\ scanProgress' = None
          /\ categoryStats' = CategoryStatsOf(scanResults')
          /\ Len(notifications') = Len(notifications) + 1
    /\ \A R \in ResultPayloads :
          ScanCompleteEvent(R) =>
              /\ scanResults' = R
              /\ isScanning' = FALSE
              /\ scanProgress' = None
              /\ categoryStats' = CategoryStatsOf(R)
              /\ Len(notifications') = Len(notifications) + 1
              /\ notifications'[1].type = "success"
              /\ notifications'[1].title = "Scan Complete"
              /\ notifications'[1].id = nextNotifId
              /\ \A i \in DOMAIN notifications : notifications'[i + 1] = notifications[i]

\* C15: a scan-completion event is reconciled in one step: no state has the new
\* result list stored with isScanning still true, scanProgress still present or
\* categoryStats of the previous results; after the handler scanResults is the
\* event's list, isScanning is false, scanProgress is absent and exactly one
\* success notification is appended.
C15_CompletionAtomic == [][C15_Step]_vars

\* C15 witness: a completion event replaced the two temp-file results of an
\* earlier scan by the single log-file result, and the store agrees with it
C15_Witness ==
    /\ Len(scanResults) = 1
    /\ scanResults[1].id = "c"
    /\ ~isScanning
    /\ scanProgress = None
    /\ Len(categoryStats) = 1
    /\ categoryStats[1].category = "log_files"
    /\ Len(notifications) = 2
    /\ notifications[1].title = "Scan Complete"
    /\ notifications[2].title = "Scan Complete"
    /\ notifications[2].message.n = 2

\* the results of one category in a list, and the sum of their sizes
C16_Of(results, c) == {i \in DOMAIN results : results[i].category = c}

RECURSIVE C16_Size(_, _)
C16_Size(results, c) ==
    IF results = <<>> THEN 0
    ELSE (IF results[1].category = c THEN results[1].size ELSE 0)
         + C16_Size(Tail(results), c)

\* the statistics stored by a completion event
C16_Step ==
    \A R \in StatsPayloads :
        ScanCompleteEvent(R) =>
            /\ \A i \in DOMAIN categoryStats' :
                  categoryStats'[i].category \in Categories
            /\ \A c \in Categories :
                  LET at == {i \in DOMAIN categoryStats' :
                                categoryStats'[i].category = c}
                  IN /\ Cardinality(at) = (IF C16_Of(R, c) = {} THEN 0 ELSE 1)
                     /\ \A i \in at :
                           /\ categoryStats'[i].count = Cardinality(C16_Of(R, c))
                           /\ categoryStats'[i].size = C16_Size(R, c)

\* C16: after a scan-completion event with result list R, categoryStats holds
\* exactly one entry per category occurring in R, with count the number of
\* results of that category and size the sum of their sizes; a category without
\* a result has no entry, whatever the statistics were before.
C16_CategoryStats == [][C16_Step]_vars

\* C16 witness: two temp-file results of 100 and 50 bytes around one log-file
\* result of 30 bytes give temp_files {2, 150} and log_files {1, 30}
C16_Witness ==
    /\ Len(scanResults) = 3
    /\ scanResults[1].category = "temp_files"
    /\ scanResults[2].category = "log_files"
    /\ scanResults[3].category = "temp_files"
    /\ Len(categoryStats) = 2
    /\ categoryStats[1].category = "temp_files"
    /\ categoryStats[1].count = 2
    /\ categoryStats[1].size = 150
    /\ categoryStats[2].category = "log_files"
    /\ categoryStats[2].count = 1
    /\ categoryStats[2].size = 30

\* the three steps of cancelScan
C17_Step ==
    /\ CancelScan =>
          /\ cancelScanPending' = cancelScanPending + 1
          /\ isScanning' = isScanning
          /\ scanProgress' = scanProgress
          /\ scanResults' = scanResults
          /\ notifications' = notifications
    /\ CancelScanAck =>
          /\ cancelScanPending' = cancelScanPending - 1
          /\ isScanning' = FALSE
          /\ scanProgress' = None
          /\ scanResults' = scanResults
          /\ AppendedExactly(Entry(nextNotifId, "info", "Scan Cancelled",
                                   Text("The scan was cancelled by user")))
    /\ CancelScanReject =>
          /\ cancelScanPending' = cancelScanPending - 1
          /\ isScanning' = isScanning
          /\ scanProgress' = scanProgress
          /\ notifications' = notifications

\* C17: cancelScan issues one cancellation request; its acknowledgement sets
\* isScanning false and scanProgress absent, appends exactly one info
\* notification and leaves scanResults unchanged; its rejection leaves
\* isScanning, scanProgress and the notification ledger unchanged.
C17_CancelScan == [][C17_Step]_vars

\* C17 witness: a scan started over the results of an earlier one was
\* cancelled, and those results are still stored
C17_Witness ==
    /\ notifications # <<>>
    /\ notifications[1].title = "Scan Cancelled"
    /\ ~isScanning
    /\ scanProgress = None
    /\ scanResults # <<>>

\* C18: in every reachable state scanProgress is present only while a scan is
\* active: it is absent whenever isScanning is false, whatever the order of
\* startScan, cancelScan, engine replies, progress and completion events.
C18_ProgressOnlyWhileScanning == (~isScanning) => (scanProgress = None)

\* C19: the results of a previous scan are destroyed on the next scan start:
\* in the state right after startScan scanResults is empty, and it stays empty
\* until a completion event stores a list.
C19_ResultsDestroyedOnStart ==
    [][ /\ (\E c \in ScanCategoryChoices : StartScan(c)) => scanResults' = <<>>
        /\ (isScanning /\ scanResults = <<>> /\ scanResults' # <<>>) =>
              \E R \in ResultPayloads : ScanCompleteEvent(R) ]_vars

\* what a reset step does to the store
C20_Step ==
    Reset =>
        /\ scanResults' = <<>>
        /\ duplicates' = <<>>
        /\ largeFiles' = <<>>
        /\ currentSession' = None
        /\ scanProgress' = None
        /\ isScanning' = FALSE
        /\ isCleaning' = FALSE
        /\ settings' = settings
        /\ restorePoints' = restorePoints
        /\ notifications' = notifications

\* C20: reset() empties scanResults, duplicates and largeFiles, makes
\* currentSession and scanProgress absent and isScanning and isCleaning false,
\* and leaves settings, restorePoints and notifications exactly as they were.
C20_Reset == [][C20_Step]_vars

\* C20 witness: the results of the completed scan are gone, which only reset
\* does here, while two notifications, a restore point and a changed setting
\* are still in the store
C20_Witness ==
    /\ scanResults = <<>>
    /\ duplicates = <<>>
    /\ largeFiles = <<>>
    /\ currentSession = None
    /\ scanProgress = None
    /\ ~isScanning
    /\ ~isCleaning
    /\ Len(notifications) = 2
    /\ restorePoints # <<>>
    /\ ~settings.createRestorePoints

\* toggling a list twice with one id gives the list back
C21_Involution ==
    \A id \in ResultIds :
        ToggleResultSelectionOp(ToggleResultSelectionOp(scanResults, id), id)
            = scanResults

\* what a toggle step does to the list
C21_Step ==
    \A id \in ResultIds :
        ToggleResultSelection(id) =>
            /\ Len(scanResults') = Len(scanResults)
            /\ \A i \in DOMAIN scanResults :
                  /\ scanResults'[i].id = scanResults[i].id
                  /\ scanResults'[i].size = scanResults[i].size
                  /\ scanResults'[i].category = scanResults[i].category
                  /\ scanResults'[i].isSelected =
                        (IF scanResults[i].id = id THEN ~scanResults[i].isSelected
                         ELSE scanResults[i].isSelected)

\* C21: toggleResultSelection(id) flips the selection flag of exactly the
\* result whose identity is id and leaves every other result and the order of
\* the list unchanged; applied twice with the same id it restores scanResults.
C21_ToggleSelection == [](C21_Involution) /\ [][C21_Step]_vars

\* C21 witness: of three results of one category only the middle one is
\* selected, which takes a toggle
C21_Witness ==
    /\ Len(scanResults) = 3
    /\ \A i \in 1..3 : scanResults[i].category = "temp_files"
    /\ ~scanResults[1].isSelected
    /\ scanResults[2].isSelected
    /\ ~scanResults[3].isSelected

\* select-all with any filter followed by deselect-all, from the stored list
C22_RoundTrip ==
    \A c \in Categories \cup {NoCategory} :
        LET after == DeselectAllResultsOp(SelectAllResultsOp(scanResults, c))
        IN /\ Len(after) = Len(scanResults)
           /\ \A i \in DOMAIN after : ~after[i].isSelected
           /\ Len(SelectedItems(after)) = 0
           /\ SelectedSize(SelectedItems(after)) = 0

\* C22: for every scan-result list and every category filter, including none,
\* selectAllResults(category) followed by deselectAllResults() leaves every
\* result unselected, so the selected count and the selected size are both 0.
C22_SelectThenDeselect ==
    [](C22_RoundTrip)
    /\ [][DeselectAllResults => \A i \in DOMAIN scanResults' :
                                    ~scanResults'[i].isSelected]_vars

\* C22 witness: a list of both categories in which select-all by category has
\* selected the log files and nothing else
C22_Witness ==
    /\ Len(scanResults) = 3
    /\ scanResults[1].category = "log_files"
    /\ scanResults[2].category = "temp_files"
    /\ scanResults[3].category = "log_files"
    /\ scanResults[1].isSelected
    /\ ~scanResults[2].isSelected
    /\ scanResults[3].isSelected

\* what a select-all step does to the list
C23_Step ==
    \A c \in Categories \cup {NoCategory} :
        SelectAllResults(c) =>
            /\ Len(scanResults') = Len(scanResults)
            /\ \A i \in DOMAIN scanResults :
                  /\ scanResults'[i].id = scanResults[i].id
                  /\ scanResults'[i].size = scanResults[i].size
                  /\ scanResults'[i].category = scanResults[i].category
                  /\ scanResults'[i].isSelected =
                        (IF c = NoCategory \/ scanResults[i].category = c
                         THEN TRUE
                         ELSE scanResults[i].isSelected)

\* C23: selectAllResults() without a category selects every scan result;
\* selectAllResults(category) selects exactly the results of that category and
\* leaves the selection flag of every result of another category as it was.
C23_SelectAll == [][C23_Step]_vars

\* C23 witness: the temp files are all selected while the log file between
\* them is not
C23_Witness ==
    /\ Len(scanResults) = 3
    /\ scanResults[1].category = "temp_files"
    /\ scanResults[2].category = "log_files"
    /\ scanResults[3].category = "temp_files"
    /\ scanResults[1].isSelected
    /\ ~scanResults[2].isSelected
    /\ scanResults[3].isSelected

\* C24 as stated: markNotificationRead(id) flips the read flag of the
\* notification whose identity is id, so that a read entry becomes unread.
C24_FlipsReadFlag ==
    \A id \in 1..MaxReadId :
        LET after == MarkNotificationReadOp(notifications, id)
        IN \A i \in DOMAIN notifications :
              notifications[i].id = id => after[i].read = ~notifications[i].read

\* markNotificationRead with any identity, from the stored ledger
C24_SetsReadFlag ==
    \A id \in 1..MaxReadId :
        LET after == MarkNotificationReadOp(notifications, id)
            present == \E i \in DOMAIN notifications : notifications[i].id = id
        IN /\ Len(after) = Len(notifications)
           /\ \A i \in DOMAIN notifications :
                 /\ after[i].id = notifications[i].id
                 /\ after[i].type = notifications[i].type
                 /\ after[i].title = notifications[i].title
                 /\ after[i].message = notifications[i].message
                 /\ after[i].read =
                       (IF notifications[i].id = id THEN TRUE
                        ELSE notifications[i].read)
           /\ ~present => after = notifications

\* C24, amended: markNotificationRead(id) sets the read flag of exactly the
\* notification whose identity is id to true (an entry already read stays
\* read), leaves every other notification and the ledger order unchanged, and
\* is a no-op when no notification has that identity.
C24_MarkRead ==
    [](C24_SetsReadFlag)
    /\ [][\A id \in 1..MaxReadId :
            MarkNotificationRead(id) =>
                notifications' = MarkNotificationReadOp(notifications, id)]_vars

\* C24 witness: of three notifications the one with identity 2 is read and
\* its neighbours are not
C24_Witness ==
    /\ Len(notifications) = 3
    /\ notifications[1].id = 3 /\ ~notifications[1].read
    /\ notifications[2].id = 2 /\ notifications[2].read
    /\ notifications[3].id = 1 /\ ~notifications[3].read

\* what a restart step does to the store
C25_Step ==
    Restart =>
        /\ settings' = settings
        /\ restorePoints' = restorePoints
        /\ sidebarCollapsed' = sidebarCollapsed
        /\ scanResults' = <<>>
        /\ duplicates' = <<>>
        /\ largeFiles' = <<>>
        /\ notifications' = <<>>
        /\ categoryStats' = <<>>
        /\ currentSession' = None
        /\ scanProgress' = None
        /\ isScanning' = FALSE
        /\ isCleaning' = FALSE
        /\ isDryRun' = TRUE

\* C25: across a process restart only settings, restorePoints and
\* sidebarCollapsed keep their values; every other store field starts again at
\* its default, whatever state the process was in when it stopped.
C25_RestartPersistence == [][C25_Step]_vars

\* C25 witness: after a restart the ledger of notifications is empty although
\* notifications had been added, while a restore point, a changed setting and
\* the collapsed sidebar are still there
C25_Witness ==
    /\ nextNotifId > 1
    /\ notifications = <<>>
    /\ scanResults = <<>>
    /\ ~isScanning
    /\ ~isCleaning
    /\ restorePoints # <<>>
    /\ ~settings.createRestorePoints
    /\ sidebarCollapsed

\* smart select with either strategy, from the stored groups
C26_Shape ==
    \A strategy \in Strategies :
        LET after == SmartSelectOp(duplicates, strategy)
        IN /\ Len(after) = Len(duplicates)
           /\ \A g \in DOMAIN duplicates :
                 LET old == duplicates[g].files
                     new == after[g].files
                     kept == {i \in DOMAIN new : ~new[i].isSelected}
                 IN /\ Len(new) = Len(old)
                    /\ \A i \in DOMAIN old : new[i].id = old[i].id
                    /\ Cardinality(kept) = 1
                    /\ \A i \in kept, j \in DOMAIN old :
                          IF strategy = "oldest"
                          THEN old[i].modified <= old[j].modified
                          ELSE old[i].modified >= old[j].modified
           /\ (duplicates # <<>> /\ strategy = "oldest") =>
                 /\ after[1].files[1].isSelected
                 /\ ~after[1].files[2].isSelected
                 /\ after[1].files[3].isSelected

\* C26: smart select with strategy 'oldest' ('newest') leaves, in each group
\* independently, exactly the member with the earliest (latest) modification
\* time unselected and every other member selected, whatever the flags were
\* before; in the group of three with strategy 'oldest' exactly the two newer
\* files end selected.
C26_SmartSelect ==
    [](C26_Shape)
    /\ [][\A strategy \in Strategies :
            SmartSelect(strategy) =>
                duplicates' = SmartSelectOp(duplicates, strategy)]_vars

\* C26 witness: in the group of three only the oldest copy d2 is unselected,
\* and in the group of two only the first of the equally old copies
C26_Witness ==
    /\ Len(duplicates) = 2
    /\ duplicates[1].files[1].isSelected
    /\ ~duplicates[1].files[2].isSelected
    /\ duplicates[1].files[3].isSelected
    /\ ~duplicates[2].files[1].isSelected
    /\ duplicates[2].files[2].isSelected

\* the identities of the members stored, and of those that are selected
C27_Members(groups) ==
    UNION { { groups[g].files[i].id : i \in DOMAIN groups[g].files } :
              g \in DOMAIN groups }

C27_Selected(groups) ==
    UNION { { groups[g].files[i].id :
                i \in {j \in DOMAIN groups[g].files : groups[g].files[j].isSelected} } :
              g \in DOMAIN groups }

\* the steps of a duplicate deletion
C27_Step ==
    /\ DeleteSelected =>
          /\ duplicates' = duplicates
          /\ findRequests' = findRequests
          /\ IF C27_Selected(duplicates) = {}
             THEN deleteRequests' = deleteRequests
             ELSE /\ Len(deleteRequests') = Len(deleteRequests) + 1
                  /\ LET sent == deleteRequests'[Len(deleteRequests')]
                     IN /\ {sent[i] : i \in DOMAIN sent} = C27_Selected(duplicates)
                        /\ Len(sent) = Cardinality(C27_Selected(duplicates))
    /\ \A i \in 1..MaxNotifs, res \in DeleteReplies :
          DeleteDuplicatesResolve(i, res) =>
              /\ findRequests' = findRequests + 1
              /\ duplicates' = duplicates
    /\ \A i \in 1..MaxNotifs :
          DeleteDuplicatesReject(i) =>
              /\ findRequests' = findRequests
              /\ duplicates' = duplicates
    /\ C27_Members(duplicates') # C27_Members(duplicates) =>
          \E results \in DuplicateLists : FindDuplicatesResolve(results)

\* C27: duplicate deletion sends the engine exactly the identifiers of the
\* members selected, across all groups, and makes no call when none is
\* selected; when the call succeeds a find-duplicates re-scan is issued and the
\* stored groups lose members only when a re-scan returns; when it fails no
\* re-scan is issued.
C27_DeleteDuplicates == [][C27_Step]_vars

\* C27 witness: the deletion has been reported, its re-scan is with the engine
\* and the members that were deleted are still stored and selected
C27_Witness ==
    /\ notifications # <<>>
    /\ notifications[1].title = "Cleanup Complete"
    /\ findRequests = 1
    /\ deleteRequests = <<>>
    /\ C27_Selected(duplicates) # {}

\* the listeners of an event that the engine reaches and whose view is
\* still there
C28_Attached(event) == {l \in LiveOf(event) : ~listeners[l].tornDown}

\* C28: after an orchestrator is torn down, no scan-progress, scan-complete or
\* cleanup-progress event is reconciled into state by its handlers, also when
\* the teardown came before the subscription call had resolved: an event that
\* finds no listener of a mounted orchestrator changes nothing.
C28_NoEventAfterTeardown ==
    [][ /\ \A p \in ProgressPayloads :
              (EmitScanProgress(p) /\ C28_Attached("scan-progress") = {}) =>
                  scanProgress' = scanProgress
        /\ \A R \in ResultPayloads :
              (EmitScanComplete(R) /\ C28_Attached("scan-complete") = {}) =>
                  /\ scanResults' = scanResults
                  /\ isScanning' = isScanning
                  /\ notifications' = notifications
        /\ \A p \in CleanupProgressPayloads :
              (EmitCleanupProgress(p) /\ C28_Attached("cleanup-progress") = {}) =>
                  cleanupProgress' = cleanupProgress ]_vars

\* C29: each scan-completion event pushed by the engine is reconciled at most
\* once, so it appends at most one 'Scan Complete' notification, also when one
\* view using the scan orchestrator is replaced by another.
C29_CompletionReconciledOnce ==
    [][ \A R \in ResultPayloads :
            EmitScanComplete(R) => Len(notifications') <= Len(notifications) + 1 ]_vars

\* C30: once a start-scan request has been issued and not rejected,
\* isScanning stays true until a completion event, an acknowledged cancelScan
\* or reset(): the flag is cleared by nothing else, and a rejected startScan
\* clears it only when its own request was the only one in flight.
C30_FlagHeldWhileScanning ==
    [][ (isScanning /\ ~isScanning') =>
            \/ \E R \in ResultPayloads : ScanCompleteEvent(R)
            \/ CancelScanAck
            \/ Reset
            \/ \E i \in 1..MaxScans, f \in Failures :
                  StartScanReject(i, f) /\ Len(scanRequests) = 1 ]_vars

\* the newest ledger entry is 'Scan Cancelled' and no scan is flagged: under the
\* hook's operations (every other way of clearing isScanning appends an entry
\* of its own) this holds only between an acknowledged cancelScan and the next
\* startScan
C31_CancelAcknowledged ==
    /\ ~isScanning
    /\ notifications # <<>>
    /\ notifications[1].title = "Scan Cancelled"

\* C31: after cancelScan has been acknowledged and until the next startScan,
\* scanResults and categoryStats stay unchanged and no 'Scan Complete'
\* notification is appended, whatever progress or completion events the engine
\* still delivers for the cancelled scan.
C31_NoLateReconciliation ==
    [][ C31_CancelAcknowledged =>
            /\ scanResults' = scanResults
            /\ categoryStats' = categoryStats
            /\ ~( /\ Len(notifications') > Len(notifications)
                  /\ notifications'[1].title = "Scan Complete" ) ]_vars

\* the newest ledger entry is 'Cleanup Cancelled', no cleanup is flagged and an
\* engine call of a run is outstanding: under the hook's operations (every
\* other way of clearing isCleaning appends an entry of its own) the
\* cancellation was acknowledged while that run was in flight
C32_CancelledInFlight ==
    /\ ~isCleaning
    /\ notifications # <<>>
    /\ notifications[1].title = "Cleanup Cancelled"
    /\ \E r \in RunIds : AwaitingRun(r)

\* the titles a run reports its own end with
C32_RunEndTitles == {"Dry Run Complete", "Cleanup Complete", "Cleanup Failed"}

\* C32: each cleanup run ends with exactly one terminal notification: a run
\* whose cancellation was acknowledged has 'Cleanup Cancelled' as that
\* notification, so the later resolution of its engine calls neither sets
\* currentSession nor appends 'Dry Run Complete', 'Cleanup Complete' or
\* 'Cleanup Failed'.
C32_OneTerminalNotification ==
    [][ C32_CancelledInFlight =>
            /\ currentSession' = currentSession
            /\ ~( /\ Len(notifications') > Len(notifications)
                  /\ notifications'[1].title \in C32_RunEndTitles ) ]_vars

\* C33: isCleaning is true in every state in which a create-restore-point or
\* perform-cleanup engine call of the layer is outstanding, for every
\* interleaving of performCleanup invocations, cancelCleanup and engine replies.
C33_FlagCoversOutstandingCalls ==
    (\E r \in RunIds : AwaitingRun(r)) => isCleaning

\* C34: the local cleanup progress is present only while a cleanup is active:
\* a starting run seeds it as {current: 0, total: number of selected items,
\* currentFile: ''}, and in every reachable state it is absent whenever
\* isCleaning is false, also when cleanup-progress events are delivered after
\* the run has ended or been cancelled.
C34_ProgressOnlyWhileCleaning ==
    /\ [] (~isCleaning => cleanupProgress = None)
    /\ [][ \A r \in RunIds : PerformCleanupStart(r) =>
              cleanupProgress' =
                  Some([current |-> 0,
                        total |-> Cardinality({i \in DOMAIN scanResults :
                                                  scanResults[i].isSelected}),
                        currentFile |-> ""]) ]_vars

\* the identifiers of the results selected right now, in list order
C35_SelectedNow ==
    LET sel == SelectSeq(scanResults, LAMBDA x : x.isSelected)
    IN [i \in DOMAIN sel |-> sel[i].id]

C35_Step ==
    \A r \in RunIds :
        /\ RestorePointResolve(r) =>
              /\ runs[r].rpArgs # <<>>
              /\ runs'[r].cleanupRequests = 1
              /\ runs'[r].cleanupArgs[1] = runs[r].rpArgs
        /\ (\E session \in Sessions : CleanupResolve(r, session)) =>
              /\ Len(scanResults') = Len(scanResults)
              /\ \A i \in DOMAIN scanResults :
                    /\ ~scanResults'[i].isSelected
                    /\ scanResults'[i].id = scanResults[i].id

\* C35: one performCleanup run works on a single selection snapshot taken at
\* invocation: the identifier list sent to create restore point equals the list
\* sent to perform cleanup, whatever toggleResultSelection, selectAllResults or
\* scan-completion events occur while the engine calls are outstanding; on
\* success every result, also one selected in the meantime, is deselected.
C35_SelectionSnapshot == [][C35_Step]_vars

\* a run whose restore point exists and whose perform-cleanup call is
\* outstanding with the snapshot's identifiers, while the selection in the
\* store has become a different one
C35_Witness ==
    \E r \in RunIds :
        /\ runs[r].pc = "awaitCleanup"
        /\ runs[r].rpAppended = 1
        /\ runs[r].cleanupArgs[1] = runs[r].rpArgs
        /\ C35_SelectedNow # runs[r].rpArgs
        /\ C35_SelectedNow # <<>>

C36_Step ==
    \A r \in RunIds :
        /\ ( \/ PerformCleanupStart(r)
             \/ RestorePointResolve(r)
             \/ \E f \in Failures : CleanupReject(r, f) ) =>
              /\ scanResults' = scanResults
              /\ currentSession' = currentSession
        /\ (\E f \in Failures : CleanupReject(r, f)) =>
              /\ restorePoints' = restorePoints
              /\ runs[r].rpAppended = 1 =>
                    \E i \in DOMAIN restorePoints' :
                        restorePoints'[i].itemCount = Len(runs[r].items)

\* C36: when the perform-cleanup engine call rejects, the selection flags of
\* all scan results and currentSession are left exactly as they were before
\* the run (no step of the run up to and including the rejection changes
\* them), and a restore point already appended for that run stays in the
\* ledger: it is not rolled back.
C36_RejectionLeavesState == [][C36_Step]_vars

\* the only run so far appended its restore point and then had its
\* perform-cleanup call rejected: the point is in the ledger, the selection is
\* still set and there is no session
C36_Witness ==
    /\ runs[1].outcome = "returned"
    /\ runs[2] = IdleRun
    /\ nextNotifId = 3
    /\ notifications[1].title = "Cleanup Failed"
    /\ Len(restorePoints) = 1
    /\ nextPointId = 2
    /\ currentSession = None
    /\ \E i \in DOMAIN scanResults : scanResults[i].isSelected

\* C37: in every reachable state categoryStats is the per-category aggregation
\* (count and size sum) of the current scanResults; in particular after reset()
\* has emptied scanResults, categoryStats is empty too.
C37_StatsFollowResults ==
    /\ \A i \in DOMAIN categoryStats : categoryStats[i].category \in Categories
    /\ \A c \in Categories :
          LET at == {i \in DOMAIN categoryStats : categoryStats[i].category = c}
          IN /\ Cardinality(at) = (IF C16_Of(scanResults, c) = {} THEN 0 ELSE 1)
             /\ \A i \in at :
                   /\ categoryStats[i].count = Cardinality(C16_Of(scanResults, c))
                   /\ categoryStats[i].size = C16_Size(scanResults, c)

\* C38: the dry-run flag that performCleanup passes to the engine follows the
\* dry-run default of the settings record: at process start isDryRun equals
\* the persisted settings.dryRunDefault, and after
\* updateSettings({dryRunDefault: v}) the next performCleanup runs with
\* dry-run flag v.
C38_DryRunFollowsSettings ==
    [][ /\ Restart => isDryRun' = settings'.dryRunDefault
        /\ \A r \in RunIds :
              PerformCleanupStart(r) =>
                  /\ runs'[r].dryRun = settings.dryRunDefault
                  /\ runs'[r].cleanupRequests = 1 =>
                        runs'[r].cleanupArgs[2] = settings.dryRunDefault ]_vars

\* C39: in the duplicates view the loading flag is true in every state in
\* which a find-duplicates or delete-duplicates engine call is outstanding; in
\* particular it stays true from the start of deleteSelected until the re-scan
\* that follows a successful deletion has returned.
C39_LoadingCoversCalls ==
    /\ [] ((findRequests > 0 \/ deleteRequests # <<>>) => loading)
    /\ [][ (\E i \in 1..MaxNotifs, res \in DeleteReplies :
                DeleteDuplicatesResolve(i, res)) => loading' ]_vars

====
